---- MODULE Spec2Model ----
(***************************************************************************)
(* Model of VideoTiledBackgroundController (the WebGL tiled video          *)
(* background of saint.works) together with the parts of the browser it    *)
(* talks to: two <video> elements, one WebGL context, the animation-frame  *)
(* queue, one timer, the microtask queue and the window / media-query /    *)
(* document listeners.                                                     *)
(*                                                                         *)
(* JavaScript runs every handler to completion, so one action is one task  *)
(* or one microtask.  An async method is cut at each await: the part up to *)
(* the await belongs to the action that called it, the rest is a           *)
(* continuation that waits in readyWaiters / playWaiters until its promise *)
(* settles and then in microtasks until it is run.  Tasks (events, frame   *)
(* callbacks, timers) only run while the microtask queue is empty.         *)
(* dispose() is called by the host (the effect cleanup) and may come at    *)
(* any point after initialize(), also while continuations are queued.      *)
(*                                                                         *)
(* Every method of the controller is an operator from a state record to a  *)
(* state record; `calls' collects the platform calls issued by the action  *)
(* that produced the current state, in program order.                      *)
(***************************************************************************)
EXTENDS Integers, Sequences, FiniteSets, TLC

NULL == "null"

\* animationHandle === null; the handles of requestAnimationFrame are positive
NoHandle == 0

\* Bounds of the model
MaxDim == 2
MaxTasks == 2

\* Largest viewport height of the runs that resize within one orientation
MaxTall == 3

\* Largest canvas width and height, and largest intrinsic width and height
\* of a clip, of the runs that compute the uniforms
MaxCanvas == 4
MaxVideo == 3

\* Widths and heights the window takes
Dims == 1..MaxDim

\* The two managed media elements (keys of VideoElements)
Videos == {"landscape", "portrait"}

\* Which element references the component hands to the controller
VideoConfigs == {{"landscape", "portrait"}, {"landscape"}}

\* How the media behind the elements behaves when loaded:
\*   good    load events fire and the intrinsic size becomes known
\*   nodims  load events fire but videoWidth / videoHeight stay 0
\*   broken  no load event ever fires
\*   nosrc   the element has neither <source> children nor src
MediaKinds == {"good", "nodims", "broken", "nosrc"}

\* The events ensureVideoReady listens to, in the order a load fires them
LoadEventAt(stage) ==
  CASE stage = 0 -> "loadedmetadata"
    [] stage = 1 -> "loadeddata"
    [] OTHER     -> "canplay"

LoadEvents == {"loadedmetadata", "loadeddata", "canplay"}

\* The interaction events the controller binds
InteractionEvents == {"click", "touchstart", "touchend", "mousedown", "keydown"}

\* Where surface initialization can fail
Failures == {"none", "vsNull", "vsCompile", "fsNull", "fsCompile",
             "programNull", "link", "attrib", "buffer", "texture"}

\* Default size of a canvas element before the controller sizes it
DefaultCanvas == <<300, 150>>

\* The MIME types detectVideoCodecSupport asks canPlayType about
Av1Type == "video/webm; codecs=av01.0.05M.08"
Vp9Type == "video/webm; codecs=vp9"
H264Type == "video/mp4; codecs=avc1.42E01E"
Mp4Type == "video/mp4"
MimeTypes == {Av1Type, Vp9Type, H264Type, Mp4Type}

\* A runtime that plays the mandatory encoding only
BaselineRuntime == {H264Type, Mp4Type}

\* process.env.NEXT_PUBLIC_BASE_PATH as the production build sets it
BASE_PATH == "/saint.works"

\* VideoFormats records: the path of each encoding, NULL where the
\* configuration supplies none.  The desktop paths are those of VIDEO_PATHS;
\* the mobile paths stand for the ones a mobile clip would be given
DesktopPaths ==
  [av1 |-> "bg-reel.av1.webm", vp9 |-> "bg-reel.vp9.webm", h264 |-> "bg-reel.mp4"]

MobilePaths ==
  [av1 |-> "bg-reel-mobile.av1.webm", vp9 |-> "bg-reel-mobile.vp9.webm",
   h264 |-> "bg-reel-mobile.mp4"]

NoPaths == [av1 |-> NULL, vp9 |-> NULL, h264 |-> NULL]

FormatSetsOf(paths) ==
  [av1 : {NULL, paths.av1}, vp9 : {NULL, paths.vp9}, h264 : {NULL, paths.h264}]

\* VideoPathsConfig: mobile is << >> for null and <<formats>> otherwise
VIDEO_PATHS == [desktop |-> DesktopPaths, mobile |-> << >>]

VideoPathsConfigs ==
  [desktop : FormatSetsOf(DesktopPaths),
   mobile : {<< >>} \cup {<<m>> : m \in FormatSetsOf(MobilePaths)}]

\* The intrinsic sizes of the two clips as far as the runs of the controller
\* need them: a wide clip and a tall one
ClipSize == [landscape |-> <<2, 1>>, portrait |-> <<1, 2>>]

\* useState(false) of HomePage and BottomBar, and the variables of the swipe
\* effect and the hover reference; recentHover: the bar was entered by the
\* mouse less than 300 ms ago
PageInitial ==
  [isBottomBarExpanded |-> FALSE, isGlBackgroundHovered |-> FALSE,
   isMobile |-> FALSE, touchStartY |-> 0,
   barIsMobile |-> FALSE, isHovered |-> FALSE, recentHover |-> FALSE]

VARIABLES
  \* controller fields
  gl, program, positionBuffer, texture, positionLocation, uniforms,
  activeVideo, needsTextureUpload, videoMetadataLoaded, animationHandle,
  hasUserInteracted,
  \* constructor arguments and the media behind them; videoSize: the
  \* intrinsic width and height of each clip, reported once they are known
  videos, mediaKind, videoSize,
  \* configuration, answers of canPlayType (the types it does not answer
  \* with the empty string) and <source> children of the elements
  formats, canPlay, sources,
  \* media elements
  paused, loadStage, fallbackClass, preload,
  \* canvas, context and window; playAllowed: the autoplay policy lets
  \* play() start playback (it does from the first user gesture on)
  canvasSize, shaders, innerWidth, innerHeight, mqMatches, playAllowed,
  \* layout size of the canvas in CSS pixels and window.devicePixelRatio, a
  \* fraction <<n, d>>
  clientWidth, clientHeight, devicePixelRatio,
  \* listeners, frame queue, timers
  resizeListener, orientationListener, interactionListeners,
  rafPending, timers,
  \* suspended async calls
  readyWaiters, playWaiters, microtasks,
  \* observation of the run
  calls, last, initialized, disposed, disposedDuringInit,
  \* the state of HomePage and BottomBar, which render the controller's
  \* component and share nothing with it; NULL in the runs of the controller
  page

vars == <<gl, program, positionBuffer, texture, positionLocation, uniforms,
          activeVideo, needsTextureUpload, videoMetadataLoaded, animationHandle,
          hasUserInteracted, videos, mediaKind, videoSize, formats, canPlay, sources,
          paused, loadStage, fallbackClass, preload,
          canvasSize, shaders, innerWidth, innerHeight, mqMatches, playAllowed,
          clientWidth, clientHeight, devicePixelRatio,
          resizeListener, orientationListener,
          interactionListeners, rafPending, timers,
          readyWaiters, playWaiters, microtasks,
          calls, last, initialized, disposed, disposedDuringInit, page>>

\* The current state as one record
Cur ==
  [gl |-> gl, program |-> program, positionBuffer |-> positionBuffer,
   texture |-> texture, positionLocation |-> positionLocation,
   uniforms |-> uniforms, activeVideo |-> activeVideo,
   needsTextureUpload |-> needsTextureUpload,
   videoMetadataLoaded |-> videoMetadataLoaded,
   animationHandle |-> animationHandle,
   hasUserInteracted |-> hasUserInteracted,
   videos |-> videos, mediaKind |-> mediaKind, videoSize |-> videoSize,
   formats |-> formats, canPlay |-> canPlay, sources |-> sources,
   paused |-> paused, loadStage |-> loadStage,
   fallbackClass |-> fallbackClass, preload |-> preload,
   canvasSize |-> canvasSize,
   shaders |-> shaders, innerWidth |-> innerWidth,
   innerHeight |-> innerHeight, mqMatches |-> mqMatches,
   playAllowed |-> playAllowed,
   clientWidth |-> clientWidth, clientHeight |-> clientHeight,
   devicePixelRatio |-> devicePixelRatio,
   resizeListener |-> resizeListener,
   orientationListener |-> orientationListener,
   interactionListeners |-> interactionListeners,
   rafPending |-> rafPending, timers |-> timers,
   readyWaiters |-> readyWaiters, playWaiters |-> playWaiters,
   microtasks |-> microtasks,
   calls |-> calls, last |-> last, initialized |-> initialized,
   disposed |-> disposed, disposedDuringInit |-> disposedDuringInit]

\* The next state of the controller and its platform is the record s
Controller(s) ==
  /\ gl' = s.gl /\ program' = s.program
  /\ positionBuffer' = s.positionBuffer /\ texture' = s.texture
  /\ positionLocation' = s.positionLocation /\ uniforms' = s.uniforms
  /\ activeVideo' = s.activeVideo
  /\ needsTextureUpload' = s.needsTextureUpload
  /\ videoMetadataLoaded' = s.videoMetadataLoaded
  /\ animationHandle' = s.animationHandle
  /\ hasUserInteracted' = s.hasUserInteracted
  /\ videos' = s.videos /\ mediaKind' = s.mediaKind
  /\ videoSize' = s.videoSize
  /\ formats' = s.formats /\ canPlay' = s.canPlay /\ sources' = s.sources
  /\ paused' = s.paused /\ loadStage' = s.loadStage
  /\ fallbackClass' = s.fallbackClass /\ preload' = s.preload
  /\ canvasSize' = s.canvasSize
  /\ shaders' = s.shaders /\ innerWidth' = s.innerWidth
  /\ innerHeight' = s.innerHeight /\ mqMatches' = s.mqMatches
  /\ playAllowed' = s.playAllowed
  /\ clientWidth' = s.clientWidth /\ clientHeight' = s.clientHeight
  /\ devicePixelRatio' = s.devicePixelRatio
  /\ resizeListener' = s.resizeListener
  /\ orientationListener' = s.orientationListener
  /\ interactionListeners' = s.interactionListeners
  /\ rafPending' = s.rafPending /\ timers' = s.timers
  /\ readyWaiters' = s.readyWaiters /\ playWaiters' = s.playWaiters
  /\ microtasks' = s.microtasks
  /\ calls' = s.calls /\ last' = s.last /\ initialized' = s.initialized
  /\ disposed' = s.disposed
  /\ disposedDuringInit' = s.disposedDuringInit

\* The next state is the record s; the page stays as it is
Commit(s) == Controller(s) /\ page' = page

\* The state at the start of the action `op': no call issued yet
Begin(op) == [Cur EXCEPT !.calls = << >>, !.last = op]

\* Record the platform call `op' on the object `on'
Call(s, op, on) == [s EXCEPT !.calls = Append(@, [op |-> op, on |-> on])]

----------------------------------------------------------------------------
\* Browser: media elements

\* The element behind a key of this.videos, NULL when the reference is null
Elem(s, v) == IF v \in s.videos THEN v ELSE NULL

\* videoWidth and videoHeight are nonzero
DimsKnown(s, v) == s.mediaKind = "good" /\ s.loadStage[v] >= 1

\* video.videoWidth and video.videoHeight: 0 until the size is known
VideoWidth(s, v) == IF DimsKnown(s, v) THEN s.videoSize[v][1] ELSE 0

VideoHeight(s, v) == IF DimsKnown(s, v) THEN s.videoSize[v][2] ELSE 0

\* readyState >= 2 (HAVE_CURRENT_DATA)
HasCurrentData(s, v) == s.loadStage[v] >= 2

\* The element has <source> children or a src
HasSources(s, v) == s.sources[v] # << >>

\* video.play(): starts playback when the policy allows it, else the
\* returned promise rejects and the element stays paused
DomPlay(s, v) ==
  Call(IF s.playAllowed THEN [s EXCEPT !.paused[v] = FALSE] ELSE s, "play", v)

\* video.pause()
DomPause(s, v) == Call([s EXCEPT !.paused[v] = TRUE], "pause", v)

\* video.load(): the media element load algorithm aborts playback and
\* resets the ready state before it selects the resource again
DomLoad(s, v) ==
  Call([s EXCEPT !.paused[v] = TRUE, !.loadStage[v] = 0], "load", v)

\* requestAnimationFrame(this.renderFrame), stored in animationHandle.
\* Handles are opaque and the one place that keeps one is overwritten here,
\* so the least handle that is not pending stands for the fresh handle
FreshHandle(s) ==
  CHOOSE h \in 1..(Cardinality(s.rafPending) + 1) :
    /\ h \notin s.rafPending
    /\ \A g \in 1..(h - 1) : g \in s.rafPending

\* requestAnimationFrame(this.renderFrame) whose handle is not stored
RequestFrame_dropsHandle(s) ==
  LET h == FreshHandle(s)
  IN Call([s EXCEPT !.rafPending = @ \cup {h}],
          "requestAnimationFrame", "window")

RequestFrame(s) ==
  LET h == FreshHandle(s)
  IN Call([s EXCEPT !.rafPending = @ \cup {h}, !.animationHandle = h],
          "requestAnimationFrame", "window")

\* UseLandscape without the replacement of a falsy ratio by 1
UseLandscape_noDefault(w, h) ==
  IF h = 0 THEN w > 0 ELSE w >= h

\* window.innerWidth / window.innerHeight || 1, compared with 1:
\* x/0 is Infinity, 0/0 is NaN and 0/y is 0, and the last two are falsy
UseLandscape(w, h) ==
  IF h = 0 THEN TRUE
  ELSE IF w = 0 THEN TRUE
  ELSE w >= h

\* window.devicePixelRatio as a fraction <<n, d>> with d > 0.  The ratios of
\* the runs, 0, 1, 3/2 and 2, are doubles, and so are their products with
\* the client sizes: resize computes with them without rounding
Frac(n, d) == <<n, d>>

Whole(k) == Frac(k, 1)

\* JavaScript numbers are IEEE 754 doubles, and every operation of
\* updateUniforms rounds its result to the nearest double.  The numbers here
\* are not negative.  A number is mant * 2^exp; mant is a sequence of digits
\* of 15 bits, the least significant first.  A double is 0 or has a mantissa
\* of exactly 53 bits: four digits, the last one in 128..255.  The double
\* nearest to 1.8 is 8106479329266893 * 2^-52, written
\* [mant |-> <<19661, 6553, 13107, 230>>, exp |-> -52].  gl.uniform2fv is
\* passed the doubles; their conversion to 32-bit floats is the platform's

Digit == 32768

Zero == [mant |-> <<0, 0, 0, 0>>, exp |-> 0]

\* The digits of n * k + carry, for 0 < k <= Digit and carry < k
RECURSIVE MulDigits(_, _, _)
MulDigits(n, k, carry) ==
  IF n = << >> THEN IF carry = 0 THEN << >> ELSE <<carry>>
  ELSE LET t == Head(n) * k + carry
       IN <<t % Digit>> \o MulDigits(Tail(n), k, t \div Digit)

\* The digits of the quotient of n by k and the remainder, r being the
\* remainder of the digits above those of n
RECURSIVE DivDigits(_, _, _)
DivDigits(n, k, r) ==
  IF n = << >> THEN <<<< >>, r>>
  ELSE LET t == r * Digit + n[Len(n)]
           low == DivDigits(SubSeq(n, 1, Len(n) - 1), k, t % k)
       IN <<Append(low[1], t \div k), low[2]>>

\* The digits of n - m - borrow, for n >= m + borrow
RECURSIVE SubDigits(_, _, _)
SubDigits(n, m, borrow) ==
  IF n = << >> THEN << >>
  ELSE LET t == Head(n) - (IF m = << >> THEN 0 ELSE Head(m)) - borrow
       IN <<(t + Digit) % Digit>>
            \o SubDigits(Tail(n), IF m = << >> THEN << >> ELSE Tail(m),
                         IF t < 0 THEN 1 ELSE 0)

\* n without its leading zero digits
RECURSIVE Trim(_)
Trim(n) ==
  IF n # << >> /\ n[Len(n)] = 0 THEN Trim(SubSeq(n, 1, Len(n) - 1)) ELSE n

\* The digits of n * 2^s
ShiftLeft(n, s) == [i \in 1..(s \div 15) |-> 0] \o MulDigits(n, 2^(s % 15), 0)

\* The digits n are below the digits m, neither with leading zero digits
BelowDigits(n, m) ==
  \/ Len(n) < Len(m)
  \/ /\ Len(n) = Len(m)
     /\ \E i \in 1..Len(n) :
          n[i] < m[i] /\ \A j \in (i + 1)..Len(n) : n[j] = m[j]

\* The smaller of the exponents of x and y
LowExp(x, y) == IF x.exp < y.exp THEN x.exp ELSE y.exp

\* x < y: the digits of both as multiples of 2^LowExp(x, y) are compared
Below(x, y) ==
  BelowDigits(Trim(ShiftLeft(x.mant, x.exp - LowExp(x, y))),
              Trim(ShiftLeft(y.mant, y.exp - LowExp(x, y))))

\* x - y, for x >= y
Difference(x, y) ==
  [mant |-> SubDigits(ShiftLeft(x.mant, x.exp - LowExp(x, y)),
                      ShiftLeft(y.mant, y.exp - LowExp(x, y)), 0),
   exp |-> LowExp(x, y)]

\* x * k, for an integer 0 <= k <= Digit
Product(x, k) ==
  [mant |-> IF k = 0 THEN << >> ELSE MulDigits(x.mant, k, 0), exp |-> x.exp]

\* The number of bits of the digits n, which are not empty and have no
\* leading zero digit
Bits(n) ==
  15 * (Len(n) - 1)
    + CHOOSE b \in 1..15 : 2^(b - 1) <= n[Len(n)] /\ n[Len(n)] < 2^b

\* The number of digits to drop from a mantissa of the given number of bits,
\* once it is shifted to have 53 bits above them
Drop(bits) == IF bits <= 53 THEN 0 ELSE (bits - 53 + 14) \div 15

\* The mantissa m, of which the lowest drop digits are dropped, is rounded
\* up: the dropped part is above one half of the last place kept, or it is
\* one half and the last place kept is odd
RoundUp(m, drop) ==
  /\ drop > 0
  /\ \/ m[drop] > Digit \div 2
     \/ /\ m[drop] = Digit \div 2
        /\ \/ \E i \in 1..(drop - 1) : m[i] # 0
           \/ m[drop + 1] % 2 = 1

\* The double of mantissa mant, which has 53 bits or is 2^53
Normal(mant, exp) ==
  IF mant[4] = 256 THEN [mant |-> <<0, 0, 0, 128>>, exp |-> exp + 1]
  ELSE [mant |-> mant, exp |-> exp]

\* The double nearest to m * 2^exp, for a mantissa m of 53 bits above drop
\* digits
NearestKept(m, drop, exp) ==
  Normal(IF RoundUp(m, drop)
         THEN MulDigits(SubSeq(m, drop + 1, drop + 4), 1, 1)
         ELSE SubSeq(m, drop + 1, drop + 4),
         exp + 15 * drop)

\* The double nearest to n * 2^exp, for digits n of the given number of bits:
\* n is shifted to have 53 bits above the digits to drop
NearestBits(n, exp, bits) ==
  NearestKept(ShiftLeft(n, 53 + 15 * Drop(bits) - bits), Drop(bits),
              exp - (53 + 15 * Drop(bits) - bits))

\* The double nearest to n * 2^exp, for digits n without leading zero digits
NearestDigits(n, exp) ==
  IF n = << >> THEN Zero ELSE NearestBits(n, exp, Bits(n))

\* The double nearest to x; of two doubles equally near, the one with the
\* even mantissa
Nearest(x) == NearestDigits(Trim(x.mant), x.exp)

\* The integer k as a number, 0 <= k < Digit
Exact(k) == [mant |-> IF k = 0 THEN << >> ELSE <<k>>, exp |-> 0]

\* a * k in JavaScript, for a double a and an integer k
Times(a, k) == Nearest(Product(a, k))

\* a - b in JavaScript, for doubles a >= b
Minus(a, b) == Nearest(Difference(a, b))

\* The result qr = <<quotient, remainder>> of a division of digits as a
\* multiple of 2^exp: the quotient with one more bit, which tells whether a
\* remainder is left
Quotient(qr, exp) ==
  [mant |-> MulDigits(qr[1], 2, IF qr[2] = 0 THEN 0 ELSE 1), exp |-> exp]

\* a / k in JavaScript, for a double a and an integer 0 < k < Digit: the
\* quotient of the mantissa, extended by two digits
Over(a, k) ==
  Nearest(Quotient(DivDigits(<<0, 0>> \o a.mant, k, 0), a.exp - 31))

\* Math.min(a, b)
Least(a, b) == IF Below(b, a) THEN b ELSE a

\* const paddingPercent = 0.05: the double nearest to 1/20
PaddingPercent == [mant |-> <<6554, 13107, 26214, 204>>, exp |-> -57]
\* A call of the platform with the value it is given
CallWith(s, op, on, uniform, value) ==
  [s EXCEPT !.calls = Append(@, [op |-> op, on |-> on, uniform |-> uniform,
                                  value |-> value])]

\* The media query (orientation: portrait) matches
PortraitQuery(w, h) == h >= w

\* Math.round(n / d) for n >= 0 and d > 0: halves are rounded up
Round(n, d) == (2 * n + d) \div (2 * d)

\* Math.round(canvas.clientWidth * dpr) and Math.round(canvas.clientHeight *
\* dpr) with dpr = window.devicePixelRatio || 1
DisplaySize(s) ==
  LET dpr == IF s.devicePixelRatio[1] = 0 THEN Whole(1)
             ELSE s.devicePixelRatio
  IN <<Round(s.clientWidth * dpr[1], dpr[2]),
       Round(s.clientHeight * dpr[1], dpr[2])>>

----------------------------------------------------------------------------
\* Component: source selection

\* `${BASE_PATH}/${cleanPath}`, cleanPath being the path without its leading
\* slash, if it has one; `/${cleanPath}` when BASE_PATH is empty
getAssetPath(path) ==
  LET cleanPath == IF Len(path) > 0 /\ SubSeq(path, 1, 1) = "/"
                   THEN SubSeq(path, 2, Len(path))
                   ELSE path
  IN IF BASE_PATH = "" THEN "/" \o cleanPath
     ELSE BASE_PATH \o "/" \o cleanPath

detectVideoCodecSupport(answers) ==
  [supportsAV1  |-> Av1Type \in answers,
   supportsVP9  |-> Vp9Type \in answers,
   supportsH264 |-> H264Type \in answers \/ Mp4Type \in answers]

\* setVideoSources whose H.264 entry depends on the capability probe
setVideoSources_probesH264(fmts, answers) ==
  LET codecSupport == detectVideoCodecSupport(answers)
      av1 == IF codecSupport.supportsAV1 /\ fmts.av1 # NULL
             THEN <<[src |-> getAssetPath(fmts.av1), type |-> Av1Type]>>
             ELSE << >>
      vp9 == IF codecSupport.supportsVP9 /\ fmts.vp9 # NULL
             THEN <<[src |-> getAssetPath(fmts.vp9), type |-> Vp9Type]>>
             ELSE << >>
      h264 == IF codecSupport.supportsH264 /\ fmts.h264 # NULL
              THEN <<[src |-> getAssetPath(fmts.h264), type |-> H264Type]>>
              ELSE << >>
  IN av1 \o vp9 \o h264

\* setVideoSources without the capability checks
setVideoSources_ignoresProbe(fmts, answers) ==
  LET av1 == IF fmts.av1 # NULL
             THEN <<[src |-> getAssetPath(fmts.av1), type |-> Av1Type]>>
             ELSE << >>
      vp9 == IF fmts.vp9 # NULL
             THEN <<[src |-> getAssetPath(fmts.vp9), type |-> Vp9Type]>>
             ELSE << >>
      h264 == IF fmts.h264 # NULL
              THEN <<[src |-> getAssetPath(fmts.h264), type |-> H264Type]>>
              ELSE << >>
  IN av1 \o vp9 \o h264

\* setVideoSources(video, formats): the <source> children the element has
\* afterwards, in document order
setVideoSources(fmts, answers) ==
  LET codecSupport == detectVideoCodecSupport(answers)
      av1 == IF codecSupport.supportsAV1 /\ fmts.av1 # NULL
             THEN <<[src |-> getAssetPath(fmts.av1), type |-> Av1Type]>>
             ELSE << >>
      vp9 == IF codecSupport.supportsVP9 /\ fmts.vp9 # NULL
             THEN <<[src |-> getAssetPath(fmts.vp9), type |-> Vp9Type]>>
             ELSE << >>
      h264 == IF fmts.h264 # NULL
              THEN <<[src |-> getAssetPath(fmts.h264), type |-> H264Type]>>
              ELSE << >>
  IN av1 \o vp9 \o h264

\* VIDEO_PATHS.mobile taken as it is, an absent clip having no path
mobileVideo_noFallback(cfg) ==
  IF cfg.mobile = << >> THEN NoPaths ELSE cfg.mobile[1]

\* VIDEO_PATHS.mobile || desktopVideo
mobileVideo(cfg) ==
  IF cfg.mobile = << >> THEN cfg.desktop ELSE cfg.mobile[1]

\* The format set the effect gives to the element v
FormatsFor(cfg, v) ==
  IF v = "landscape" THEN cfg.desktop ELSE mobileVideo(cfg)

\* The effect up to the construction of the controller: sources, preload
\* and the load of the element matching the viewport
mountSources(s) ==
  LET useLandscape == UseLandscape(s.innerWidth, s.innerHeight)
      s1 == IF "landscape" \in s.videos
            THEN LET a == [s EXCEPT
                             !.sources["landscape"] =
                               setVideoSources(s.formats.desktop, s.canPlay),
                             !.preload["landscape"] =
                               IF useLandscape THEN "auto" ELSE "metadata"]
                 IN IF useLandscape THEN DomLoad(a, "landscape") ELSE a
            ELSE s
  IN IF "portrait" \in s1.videos
     THEN LET b == [s1 EXCEPT
                      !.sources["portrait"] =
                        setVideoSources(mobileVideo(s1.formats), s1.canPlay),
                      !.preload["portrait"] =
                        IF useLandscape THEN "metadata" ELSE "auto"]
          IN IF ~useLandscape THEN DomLoad(b, "portrait") ELSE b
     ELSE s1

\* The <source> children the effect leaves on the given elements
MountedSources(cfg, answers, given) ==
  [v \in Videos |-> IF v \in given
                    THEN setVideoSources(FormatsFor(cfg, v), answers)
                    ELSE << >>]

----------------------------------------------------------------------------
\* Controller methods

\* A call of the method running in s throws: the exception is the last entry
\* of calls unless a catch block handles it
Throw(s, on) == Call(s, "throw", on)

Threw(s) == s.calls # << >> /\ s.calls[Len(s.calls)].op = "throw"

prepareVideos(s) ==
  [s EXCEPT !.preload = [v \in Videos |-> IF v \in s.videos THEN "metadata"
                                         ELSE s.preload[v]]]

\* new VideoTiledBackgroundController(...): getContext returns a context,
\* returns null or throws
constructor(s, outcome) ==
  IF outcome = "throws" THEN Throw(Call(s, "getContext", "canvas"), "canvas")
  ELSE prepareVideos([Call(s, "getContext", "canvas")
                        EXCEPT !.gl = (outcome = "context")])

\* pauseVideo without the check of video.paused
pauseVideo_unconditional(s, v) ==
  IF v = NULL THEN s ELSE DomPause(s, v)

pauseVideo(s, v) ==
  IF v = NULL \/ s.paused[v] THEN s ELSE DomPause(s, v)

\* playVideo up to its await of video.play().  A refused play() returns a
\* rejected promise, so the catch block is queued as a microtask; otherwise
\* the promise is pending.  awaited: the caller awaits playVideo, and init
\* tells whether that caller was started by initGL
playVideo(s, v, awaited, init) ==
  IF v = NULL
  THEN IF awaited
       THEN [s EXCEPT !.microtasks =
               Append(@, [k |-> "afterPlay", target |-> v, init |-> init])]
       ELSE s
  ELSE IF s.playAllowed
  THEN [DomPlay(s, v) EXCEPT !.playWaiters =
          Append(@, [target |-> v, init |-> init, awaited |-> awaited])]
  ELSE [DomPlay(s, v) EXCEPT !.microtasks =
          Append(@, [k |-> IF awaited THEN "playRejectedAwaited"
                           ELSE "playRejected",
                     target |-> v, init |-> init])]

\* The catch block of playVideo; the caller that awaits playVideo resumes in
\* a later microtask
playVideoCatch(s, m) ==
  LET s1 == Call(s, "warn autoplay prevented", "console")
  IN IF m.k = "playRejectedAwaited"
     THEN [s1 EXCEPT !.microtasks =
             Append(@, [k |-> "afterPlay", target |-> m.target,
                        init |-> m.init])]
     ELSE s1

\* updateUniforms that sets no uniform
updateUniforms_none(s) == s

\* effectiveCanvasSize: the canvas size less the padding on both sides
effectiveCanvasSize(canvas, paddingPercent) ==
  LET paddingWidth == Times(Times(paddingPercent, canvas[1]), 2)
      paddingHeight == Times(Times(paddingPercent, canvas[2]), 2)
  IN <<Minus(Nearest(Exact(canvas[1])), paddingWidth),
       Minus(Nearest(Exact(canvas[2])), paddingHeight)>>

\* effectiveScale: the smaller of the scales that fit the width and the
\* height of the video into effectiveCanvasSize
effectiveScale(effectiveSize, videoWidth, videoHeight) ==
  LET effectiveWidthScale == Over(effectiveSize[1], videoWidth)
      effectiveHeightScale == Over(effectiveSize[2], videoHeight)
  IN Least(effectiveWidthScale, effectiveHeightScale)

\* [videoWidth * scale, videoHeight * scale]
ScaledSize(scale, videoWidth, videoHeight) ==
  <<Times(scale, videoWidth), Times(scale, videoHeight)>>

\* displayVideoSize as updateUniforms computes it from the canvas size, from
\* videoWidth || 1 and videoHeight || 1, and from the padding
displayVideoSize(canvas, videoWidth, videoHeight, paddingPercent) ==
  ScaledSize(effectiveScale(effectiveCanvasSize(canvas, paddingPercent),
                            videoWidth, videoHeight),
             videoWidth, videoHeight)

\* The widths and heights of the canvas in the runs: those of a client of
\* up to MaxCanvas pixels on a screen of a pixel ratio up to 2
SurfaceDims == 0..(2 * MaxCanvas)

\* The intrinsic widths and heights of the clips in the runs
VideoDims == 1..MaxVideo

\* displayVideoSize for every canvas size and clip size of the runs,
\* computed once
DisplayVideoSizes ==
  [cw \in SurfaceDims |-> [ch \in SurfaceDims |->
     [vw \in VideoDims |-> [vh \in VideoDims |->
        displayVideoSize(<<cw, ch>>, vw, vh, PaddingPercent)]]]]

\* The canvas size c and the clip size v are among those of DisplayVideoSizes
InRuns(c, v) ==
  /\ c[1] \in SurfaceDims /\ c[2] \in SurfaceDims
  /\ v[1] \in VideoDims /\ v[2] \in VideoDims

\* updateUniforms that fits the video into the whole canvas, without padding
updateUniforms_noPadding(s) ==
  IF ~s.gl \/ ~s.program \/ s.activeVideo = NULL \/ ~s.uniforms THEN s
  ELSE
    LET s1 == Call(s, "useProgram", "gl")
        \* videoWidth || 1, videoHeight || 1
        videoWidth == IF VideoWidth(s, s.activeVideo) = 0 THEN 1
                      ELSE VideoWidth(s, s.activeVideo)
        videoHeight == IF VideoHeight(s, s.activeVideo) = 0 THEN 1
                       ELSE VideoHeight(s, s.activeVideo)
        s2 == CallWith(s1, "uniform2fv", "gl", "u_canvasSize", s.canvasSize)
        s3 == CallWith(s2, "uniform2fv", "gl", "u_displayVideoSize",
                       displayVideoSize(s.canvasSize, videoWidth, videoHeight,
                                        Zero))
        s4 == Call(s3, "uniform1f", "gl")
    IN Call(s4, "uniform1i", "gl")

updateUniforms(s) ==
  IF ~s.gl \/ ~s.program \/ s.activeVideo = NULL \/ ~s.uniforms THEN s
  ELSE
    LET s1 == Call(s, "useProgram", "gl")
        \* videoWidth || 1, videoHeight || 1
        videoWidth == IF VideoWidth(s, s.activeVideo) = 0 THEN 1
                      ELSE VideoWidth(s, s.activeVideo)
        videoHeight == IF VideoHeight(s, s.activeVideo) = 0 THEN 1
                       ELSE VideoHeight(s, s.activeVideo)
        s2 == CallWith(s1, "uniform2fv", "gl", "u_canvasSize", s.canvasSize)
        s3 == CallWith(s2, "uniform2fv", "gl", "u_displayVideoSize",
                       IF InRuns(s.canvasSize, <<videoWidth, videoHeight>>)
                       THEN DisplayVideoSizes[s.canvasSize[1]][s.canvasSize[2]]
                                             [videoWidth][videoHeight]
                       ELSE displayVideoSize(s.canvasSize, videoWidth,
                                             videoHeight, PaddingPercent))
        s4 == Call(s3, "uniform1f", "gl")
    IN Call(s4, "uniform1i", "gl")

\* resize without the check of this.gl
resize_unguarded(s, force) ==
  LET s1 == IF force \/ s.canvasSize # DisplaySize(s)
            THEN Call([s EXCEPT !.canvasSize = DisplaySize(s)],
                      "setSize", "canvas")
            ELSE s
      s2 == Call(s1, "viewport", "gl")
  IN updateUniforms(s2)

resize(s, force) ==
  IF ~s.gl THEN s
  ELSE
    LET s1 == IF force \/ s.canvasSize # DisplaySize(s)
              THEN Call([s EXCEPT !.canvasSize = DisplaySize(s)],
                        "setSize", "canvas")
              ELSE s
        s2 == Call(s1, "viewport", "gl")
    IN updateUniforms(s2)

enableFallbackVideo(s) ==
  LET useLandscape == UseLandscape(s.innerWidth, s.innerHeight)
      primary   == Elem(s, IF useLandscape THEN "landscape" ELSE "portrait")
      secondary == Elem(s, IF useLandscape THEN "portrait" ELSE "landscape")
      s1 == IF primary # NULL
            THEN playVideo([s EXCEPT !.fallbackClass[primary] = TRUE], primary,
                           FALSE, FALSE)
            ELSE s
  IN IF secondary # NULL
     THEN pauseVideo([s1 EXCEPT !.fallbackClass[secondary] = FALSE], secondary)
     ELSE s1

\* An async call returns: the caller that awaits it (initGL, when the
\* selection was started by initGL) is queued as a microtask
Return(s, init) ==
  IF init
  THEN [s EXCEPT !.microtasks =
          Append(@, [k |-> "initGL", target |-> NULL, init |-> TRUE])]
  ELSE s

\* ensureVideoReady(video): the promise is resolved at once (the caller is
\* queued as a microtask) or listeners are attached and the load restarted
ensureVideoReady(s, v, init) ==
  IF HasCurrentData(s, v) /\ DimsKnown(s, v)
  THEN [s EXCEPT !.videoMetadataLoaded = TRUE,
                 !.needsTextureUpload = TRUE,
                 !.microtasks =
                   Append(@, [k |-> "afterReady", target |-> v, init |-> init])]
  ELSE IF ~HasSources(s, v)
  THEN [Call(s, "warn no sources", "console") EXCEPT !.microtasks =
          Append(@, [k |-> "afterReady", target |-> v, init |-> init])]
  ELSE DomLoad([s EXCEPT !.readyWaiters =
                  Append(@, [target |-> v, init |-> init,
                             listening |-> LoadEvents])], v)

\* selectVideo that leaves the preload of the other element as it is
selectVideo_keepsPreload(s, init) ==
  LET useLandscape == UseLandscape(s.innerWidth, s.innerHeight)
      target   == Elem(s, IF useLandscape THEN "landscape" ELSE "portrait")
  IN IF s.videos = {} THEN Return(s, init)
     ELSE IF target = NULL THEN Return(enableFallbackVideo(s), init)
     ELSE IF s.activeVideo = target THEN Return(s, init)
     ELSE
       LET s1 == pauseVideo(s, s.activeVideo)
           s2 == [s1 EXCEPT !.videoMetadataLoaded = FALSE,
                            !.preload[target] = "auto"]
           s3 == DomLoad(s2, target)
           s5 == [s3 EXCEPT !.activeVideo = target]
       IN ensureVideoReady(s5, target, init)

\* selectVideo without the check that the target is already active
selectVideo_noSkip(s, init) ==
  LET useLandscape == UseLandscape(s.innerWidth, s.innerHeight)
      target   == Elem(s, IF useLandscape THEN "landscape" ELSE "portrait")
      inactive == Elem(s, IF useLandscape THEN "portrait" ELSE "landscape")
  IN IF s.videos = {} THEN Return(s, init)
     ELSE IF target = NULL THEN Return(enableFallbackVideo(s), init)
     ELSE
       LET s1 == pauseVideo(s, s.activeVideo)
           s2 == [s1 EXCEPT !.videoMetadataLoaded = FALSE,
                            !.preload[target] = "auto"]
           s3 == DomLoad(s2, target)
           s4 == IF inactive # NULL
                 THEN [s3 EXCEPT !.preload[inactive] = "metadata"]
                 ELSE s3
           s5 == [s4 EXCEPT !.activeVideo = target]
       IN ensureVideoReady(s5, target, init)

\* selectVideo up to its first await
selectVideo(s, init) ==
  LET useLandscape == UseLandscape(s.innerWidth, s.innerHeight)
      target   == Elem(s, IF useLandscape THEN "landscape" ELSE "portrait")
      inactive == Elem(s, IF useLandscape THEN "portrait" ELSE "landscape")
  IN IF s.videos = {} THEN Return(s, init)
     ELSE IF target = NULL THEN Return(enableFallbackVideo(s), init)
     ELSE IF s.activeVideo = target THEN Return(s, init)
     ELSE
       LET s1 == pauseVideo(s, s.activeVideo)
           s2 == [s1 EXCEPT !.videoMetadataLoaded = FALSE,
                            !.preload[target] = "auto"]
           s3 == DomLoad(s2, target)
           s4 == IF inactive # NULL
                 THEN [s3 EXCEPT !.preload[inactive] = "metadata"]
                 ELSE s3
           s5 == [s4 EXCEPT !.activeVideo = target]
       IN ensureVideoReady(s5, target, init)

\* selectVideo whose end marks the texture but forces no resize
selectVideoTail_noResize(s, target, init) ==
  Return([s EXCEPT !.needsTextureUpload = TRUE], init)

\* selectVideo from the playback attempt's completion to its end
selectVideoTail(s, target, init) ==
  LET s1 == [s EXCEPT !.fallbackClass =
               [v \in Videos |-> IF v \in s.videos THEN FALSE
                                ELSE s.fallbackClass[v]]]
      s2 == [s1 EXCEPT !.needsTextureUpload = TRUE]
  IN Return(resize(s2, TRUE), init)

\* selectVideo that marks the texture and forces the resize before it
\* attempts playback
selectVideoAfterReady_marksFirst(s, target, init) ==
  playVideo(selectVideoTail(s, target, init), target, FALSE, FALSE)

\* selectVideo from the resolution of ensureVideoReady on
selectVideoAfterReady(s, target, init) ==
  IF s.hasUserInteracted
  THEN playVideo(s, target, TRUE, init)
  ELSE selectVideoTail(playVideo(s, target, FALSE, FALSE), target, init)

\* videoHasNewFrame that reports a playing element only
videoHasNewFrame_playingOnly(s) ==
  IF s.activeVideo = NULL THEN FALSE
  ELSE ~s.paused[s.activeVideo]

videoHasNewFrame(s) ==
  IF s.activeVideo = NULL THEN FALSE
  ELSE \/ ~s.paused[s.activeVideo]
       \/ s.videoMetadataLoaded /\ HasCurrentData(s, s.activeVideo)

\* gl.texImage2D(..., video): the element the texture is filled from and
\* the size it reports at the call
texImage2D(s, v) ==
  [s EXCEPT !.calls = Append(@, [op |-> "texImage2D", on |-> "gl",
                                  source |-> v,
                                  width |-> VideoWidth(s, v),
                                  height |-> VideoHeight(s, v)])]

bindPositionBuffer(s) ==
  IF ~s.gl \/ ~s.positionBuffer THEN s
  ELSE Call(Call(s, "bindBuffer", "gl"), "vertexAttribPointer", "gl")

\* renderFrame that uploads without the check of videoWidth and videoHeight
renderFrame_uploadsUnsized(s) ==
  IF ~s.gl \/ ~s.program \/ s.activeVideo = NULL THEN RequestFrame(s)
  ELSE
    LET s1 == Call(s, "useProgram", "gl")
        s2 == Call(Call(s1, "clearColor", "gl"), "clear", "gl")
        s3 == Call(Call(s2, "activeTexture", "gl"), "bindTexture", "gl")
        s4 == IF s3.needsTextureUpload \/ videoHasNewFrame(s3)
              THEN texImage2D([s3 EXCEPT !.needsTextureUpload = FALSE],
                              s3.activeVideo)
              ELSE s3
        s5 == updateUniforms(s4)
        s6 == IF s5.positionLocation # NULL /\ s5.positionBuffer
              THEN bindPositionBuffer(s5)
              ELSE s5
        s7 == Call(s6, "drawArrays", "gl")
    IN RequestFrame(s7)

\* renderFrame that clears the mark in every drawn frame, uploaded or not
renderFrame_alwaysClearsMark(s) ==
  IF ~s.gl \/ ~s.program \/ s.activeVideo = NULL THEN RequestFrame(s)
  ELSE
    LET s1 == Call(s, "useProgram", "gl")
        s2 == Call(Call(s1, "clearColor", "gl"), "clear", "gl")
        s3 == Call(Call(s2, "activeTexture", "gl"), "bindTexture", "gl")
        s4 == IF (s3.needsTextureUpload \/ videoHasNewFrame(s3))
                 /\ DimsKnown(s3, s3.activeVideo)
              THEN texImage2D([s3 EXCEPT !.needsTextureUpload = FALSE],
                              s3.activeVideo)
              ELSE [s3 EXCEPT !.needsTextureUpload = FALSE]
        s5 == updateUniforms(s4)
        s6 == IF s5.positionLocation # NULL /\ s5.positionBuffer
              THEN bindPositionBuffer(s5)
              ELSE s5
        s7 == Call(s6, "drawArrays", "gl")
    IN RequestFrame(s7)

\* renderFrame without the check of context, program and active element
renderFrame_unguarded(s) ==
  RequestFrame(Call(Call(s, "clear", "gl"), "drawArrays", "gl"))

renderFrame(s) ==
  IF ~s.gl \/ ~s.program \/ s.activeVideo = NULL THEN RequestFrame(s)
  ELSE
    LET s1 == Call(s, "useProgram", "gl")
        s2 == Call(Call(s1, "clearColor", "gl"), "clear", "gl")
        s3 == Call(Call(s2, "activeTexture", "gl"), "bindTexture", "gl")
        s4 == IF (s3.needsTextureUpload \/ videoHasNewFrame(s3))
                 /\ DimsKnown(s3, s3.activeVideo)
              THEN texImage2D([s3 EXCEPT !.needsTextureUpload = FALSE],
                              s3.activeVideo)
              ELSE s3
        s5 == updateUniforms(s4)
        s6 == IF s5.positionLocation # NULL /\ s5.positionBuffer
              THEN bindPositionBuffer(s5)
              ELSE s5
        s7 == Call(s6, "drawArrays", "gl")
    IN RequestFrame(s7)

\* disposeGL that deletes the program but keeps the reference to it
disposeGL_keepsProgram(s) ==
  IF ~s.gl THEN s
  ELSE
    LET s1 == IF s.texture
              THEN Call([s EXCEPT !.texture = FALSE], "deleteTexture", "gl")
              ELSE s
        s2 == IF s1.positionBuffer
              THEN Call([s1 EXCEPT !.positionBuffer = FALSE],
                        "deleteBuffer", "gl")
              ELSE s1
    IN IF s2.program THEN Call(s2, "deleteProgram", "gl") ELSE s2

\* disposeGL that forgets the vertex buffer
disposeGL_keepsBuffer(s) ==
  IF ~s.gl THEN s
  ELSE
    LET s1 == IF s.texture
              THEN Call([s EXCEPT !.texture = FALSE], "deleteTexture", "gl")
              ELSE s
    IN IF s1.program
       THEN Call([s1 EXCEPT !.program = FALSE], "deleteProgram", "gl")
       ELSE s1

disposeGL(s) ==
  IF ~s.gl THEN s
  ELSE
    LET s1 == IF s.texture
              THEN Call([s EXCEPT !.texture = FALSE], "deleteTexture", "gl")
              ELSE s
        s2 == IF s1.positionBuffer
              THEN Call([s1 EXCEPT !.positionBuffer = FALSE],
                        "deleteBuffer", "gl")
              ELSE s1
    IN IF s2.program
       THEN Call([s2 EXCEPT !.program = FALSE], "deleteProgram", "gl")
       ELSE s2

\* removeUserInteractionListeners that leaves the listeners attached
removeUserInteractionListeners_keeps(s) ==
  Call(s, "removeEventListener", "document")

removeUserInteractionListeners(s) ==
  Call([s EXCEPT !.interactionListeners = {}], "removeEventListener", "document")

attachUserInteractionListeners(s) ==
  Call([s EXCEPT !.interactionListeners = InteractionEvents],
       "addEventListener", "document")

attachEvents(s) ==
  LET s1 == Call([s EXCEPT !.resizeListener = TRUE],
                 "addEventListener", "window")
      s2 == Call([s1 EXCEPT !.orientationListener = TRUE],
                 "addEventListener", "mediaQuery")
  IN attachUserInteractionListeners(s2)

dispose(s) ==
  LET s1 == IF s.animationHandle # NoHandle
            THEN Call([s EXCEPT !.rafPending = @ \ {s.animationHandle},
                                !.animationHandle = NoHandle],
                      "cancelAnimationFrame", "window")
            ELSE s
      s2 == Call([s1 EXCEPT !.resizeListener = FALSE],
                 "removeEventListener", "window")
      s3 == Call([s2 EXCEPT !.orientationListener = FALSE],
                 "removeEventListener", "mediaQuery")
      s4 == removeUserInteractionListeners(s3)
      s5 == disposeGL(s4)
  IN pauseVideo(s5, s5.activeVideo)

\* compileShader(type, source): createShader returns null, or the compile
\* fails (the shader is deleted and an Error thrown), or a shader results
compileShader(s, outcome) ==
  IF ~s.gl THEN [st |-> s, shader |-> FALSE, ok |-> TRUE]
  ELSE IF outcome = "null"
  THEN [st |-> Call(s, "createShader", "gl"), shader |-> FALSE, ok |-> TRUE]
  ELSE
    LET s1 == Call([s EXCEPT !.shaders = @ + 1], "createShader", "gl")
        s2 == Call(Call(s1, "shaderSource", "gl"), "compileShader", "gl")
        s3 == Call(s2, "getShaderParameter", "gl")
    IN IF outcome = "fail"
       THEN [st |-> Call([Call(s3, "getShaderInfoLog", "gl")
                            EXCEPT !.shaders = @ - 1], "deleteShader", "gl"),
             shader |-> FALSE, ok |-> FALSE]
       ELSE [st |-> s3, shader |-> TRUE, ok |-> TRUE]

\* What createShader / compileShader do for the vertex and fragment shader
\* under the failure f
VertexOutcome(s, f) ==
  IF f = "vsNull" THEN "null"
  ELSE IF f = "vsCompile" THEN "fail" ELSE "ok"

FragmentOutcome(s, f) ==
  IF f = "fsNull" THEN "null"
  ELSE IF f = "fsCompile" THEN "fail" ELSE "ok"

\* createProgram(); ok is FALSE when it throws
createProgram(s, f) ==
  IF ~s.gl THEN [st |-> s, ok |-> TRUE]
  ELSE
    LET v == compileShader(s, VertexOutcome(s, f))
    IN IF ~v.ok THEN [st |-> v.st, ok |-> FALSE]
       ELSE
         LET g == compileShader(v.st, FragmentOutcome(s, f))
         IN IF ~g.ok THEN [st |-> g.st, ok |-> FALSE]
            ELSE IF ~v.shader \/ ~g.shader THEN [st |-> g.st, ok |-> FALSE]
            ELSE IF f = "programNull"
            THEN [st |-> Call(g.st, "createProgram", "gl"), ok |-> FALSE]
            ELSE
              LET s1 == Call(g.st, "createProgram", "gl")
                  s2 == Call(Call(s1, "attachShader", "gl"), "attachShader", "gl")
                  s3 == Call(Call(s2, "linkProgram", "gl"),
                             "getProgramParameter", "gl")
              IN IF f = "link"
                 THEN [st |-> Call(Call(s3, "getProgramInfoLog", "gl"),
                                   "deleteProgram", "gl"),
                       ok |-> FALSE]
                 ELSE
                   LET s4 == [Call(s3, "useProgram", "gl")
                                EXCEPT !.program = TRUE, !.uniforms = TRUE]
                       s5 == Call(s4, "getAttribLocation", "gl")
                   IN IF f = "attrib"
                      THEN [st |-> [s5 EXCEPT !.positionLocation = "-1"],
                            ok |-> FALSE]
                      ELSE [st |-> Call([s5 EXCEPT !.positionLocation = "0"],
                                        "enableVertexAttribArray", "gl"),
                            ok |-> TRUE]

createBuffers(s, f) ==
  IF ~s.gl THEN [st |-> s, ok |-> TRUE]
  ELSE IF f = "buffer"
  THEN [st |-> Call(s, "createBuffer", "gl"), ok |-> FALSE]
  ELSE
    LET s1 == Call(Call(Call(s, "createBuffer", "gl"), "bindBuffer", "gl"),
                   "bufferData", "gl")
        s2 == [s1 EXCEPT !.positionBuffer = TRUE]
    IN [st |-> IF s2.positionLocation # NULL THEN bindPositionBuffer(s2) ELSE s2,
        ok |-> TRUE]

createTexture(s, f) ==
  IF ~s.gl THEN [st |-> s, ok |-> TRUE]
  ELSE IF f = "texture"
  THEN [st |-> Call(s, "createTexture", "gl"), ok |-> FALSE]
  ELSE
    LET s1 == Call(Call(s, "createTexture", "gl"), "bindTexture", "gl")
        s2 == Call(Call(s1, "texParameteri", "gl"), "texParameteri", "gl")
        s3 == Call(Call(s2, "texParameteri", "gl"), "texParameteri", "gl")
    IN [st |-> [s3 EXCEPT !.texture = TRUE], ok |-> TRUE]

\* initGL that starts the frame loop before it selects the media
initGL_loopFirst(s, f) ==
  LET p == createProgram(s, f)
  IN IF ~p.ok THEN p
     ELSE LET b == createBuffers(p.st, f)
          IN IF ~b.ok THEN b
             ELSE LET t == createTexture(b.st, f)
                  IN IF ~t.ok THEN t
                     ELSE [st |-> selectVideo(renderFrame(t.st), TRUE),
                           ok |-> TRUE]

\* initGL up to its await of selectVideo
initGL(s, f) ==
  LET p == createProgram(s, f)
  IN IF ~p.ok THEN p
     ELSE LET b == createBuffers(p.st, f)
          IN IF ~b.ok THEN b
             ELSE LET t == createTexture(b.st, f)
                  IN IF ~t.ok THEN t
                     ELSE [st |-> selectVideo(t.st, TRUE), ok |-> TRUE]

\* initGL after selectVideo has returned
initGLResume(s) == renderFrame(resize(s, TRUE))

\* The catch block of initialize() that drops the context without
\* disposeGL()
initializeCatch_keepsResources(s) ==
  LET s1 == Call(s, "warn WebGL initialization failed", "console")
  IN enableFallbackVideo([s1 EXCEPT !.gl = FALSE])

\* The catch block of initialize() that keeps this.gl
initializeCatch_keepsContext(s) ==
  enableFallbackVideo(
    disposeGL(Call(s, "warn WebGL initialization failed", "console")))

\* The catch block of initialize(): initGL is an async function, so what it
\* throws rejects its promise and the block runs as a microtask
initializeCatch(s) ==
  LET s1 == disposeGL(Call(s, "warn WebGL initialization failed", "console"))
  IN enableFallbackVideo([s1 EXCEPT !.gl = FALSE])

\* initialize() up to its await of initGL, or to its end when there is no
\* context
initialize(s, f) ==
  LET s1 == attachEvents([s EXCEPT !.initialized = TRUE])
  IN IF ~s1.gl
     THEN enableFallbackVideo(Call(s1, "warn WebGL unavailable", "console"))
     ELSE
       LET r == initGL(s1, f)
       IN IF r.ok THEN r.st
          ELSE [r.st EXCEPT !.microtasks =
                  Append(@, [k |-> "initFailed", target |-> NULL,
                             init |-> TRUE])]

\* handleResize that selects the element but leaves the canvas as it is
handleResize_selectsOnly(s) ==
  IF s.gl THEN selectVideo(s, FALSE)
  ELSE enableFallbackVideo(s)

handleResize(s) ==
  IF s.gl THEN selectVideo(resize(s, FALSE), FALSE)
  ELSE enableFallbackVideo(s)

\* handleOrientation that decides by the result of the media query, not by
\* the aspect ratio
handleOrientation_byQuery(s) ==
  LET t == [s EXCEPT !.innerWidth = IF s.mqMatches THEN 1 ELSE 2,
                     !.innerHeight = IF s.mqMatches THEN 2 ELSE 1]
      r == IF t.gl THEN selectVideo(t, FALSE) ELSE enableFallbackVideo(t)
  IN [r EXCEPT !.innerWidth = s.innerWidth, !.innerHeight = s.innerHeight]

handleOrientation(s) ==
  IF s.gl THEN selectVideo(s, FALSE)
  ELSE enableFallbackVideo(s)

playAllVideos(s) ==
  LET s1 == IF s.activeVideo # NULL THEN DomPlay(s, s.activeVideo) ELSE s
      s2 == IF "landscape" \in s.videos THEN DomPlay(s1, "landscape") ELSE s1
      s3 == IF "portrait" \in s.videos THEN DomPlay(s2, "portrait") ELSE s2
  IN IF s3.activeVideo = NULL THEN selectVideo(s3, FALSE) ELSE s3

handleUserInteraction(s) ==
  IF s.hasUserInteracted THEN s
  ELSE
    LET s1 == playAllVideos([s EXCEPT !.hasUserInteracted = TRUE])
        s2 == Call([s1 EXCEPT !.timers = @ + 1], "setTimeout", "window")
    IN removeUserInteractionListeners(s2)

\* A load event e fires on the element v: every onLoaded listening to it
\* runs, in the order the listeners were attached
onLoaded(s, v, e) ==
  LET Hit(w) == w.target = v /\ e \in w.listening
      Resolved(w) == Hit(w) /\ DimsKnown(s, v)
      Kept(w) == ~Resolved(w)
      Strip(w) == IF Hit(w) THEN [w EXCEPT !.listening = @ \ {e}] ELSE w
      done == SelectSeq(s.readyWaiters, Resolved)
      rest == SelectSeq(s.readyWaiters, Kept)
  IN [s EXCEPT
        !.readyWaiters = [i \in 1..Len(rest) |-> Strip(rest[i])],
        !.microtasks = @ \o [i \in 1..Len(done) |->
                               [k |-> "afterReady", target |-> done[i].target,
                                init |-> done[i].init]],
        !.videoMetadataLoaded = IF done # << >> THEN TRUE ELSE @,
        !.needsTextureUpload = IF done # << >> THEN TRUE ELSE @]

\* The continuation m of a suspended async method runs
runContinuation(s, m) ==
  CASE m.k = "afterReady" -> selectVideoAfterReady(s, m.target, m.init)
    [] m.k = "afterPlay"  -> selectVideoTail(s, m.target, m.init)
    [] m.k = "initFailed" -> initializeCatch(s)
    [] m.k \in {"playRejected", "playRejectedAwaited"} -> playVideoCatch(s, m)
    [] OTHER              -> initGLResume(s)

----------------------------------------------------------------------------
\* Initial states and actions

TaskCount == Len(readyWaiters) + Len(playWaiters) + Len(microtasks)

\* No microtask is queued, so the event loop may run a task
Idle == microtasks = << >>

\* The canvas is laid out over the whole window on a screen whose pixel
\* ratio is 1
FullWindowCanvas ==
  /\ clientWidth = innerWidth /\ clientHeight = innerHeight
  /\ devicePixelRatio = Whole(1)

\* The field initializers of the controller and the page as rendered:
\* nothing created, attached, scheduled or pending
Fresh ==
  /\ program = FALSE /\ positionBuffer = FALSE /\ texture = FALSE
  /\ positionLocation = NULL /\ uniforms = FALSE
  /\ activeVideo = NULL
  /\ needsTextureUpload = FALSE /\ videoMetadataLoaded = FALSE
  /\ animationHandle = NoHandle /\ hasUserInteracted = FALSE
  /\ paused = [v \in Videos |-> TRUE]
  /\ fallbackClass = [v \in Videos |-> FALSE]
  /\ preload = [v \in Videos |-> "metadata"]
  /\ canvasSize = DefaultCanvas
  /\ shaders = 0
  /\ resizeListener = FALSE /\ orientationListener = FALSE
  /\ interactionListeners = {}
  /\ rafPending = {} /\ timers = 0
  /\ readyWaiters = << >> /\ playWaiters = << >> /\ microtasks = << >>
  /\ calls = << >>
  /\ initialized = FALSE /\ disposed = FALSE
  /\ disposedDuringInit = FALSE

\* The state after the construction of the controller.  The controller
\* reads of the sources only whether an element has any, so the runs start
\* from the shipped configuration on a baseline runtime, and from a
\* configuration without paths when the media has no source
Init ==
  /\ Fresh
  /\ page = NULL
  /\ gl \in BOOLEAN
  /\ videos \in VideoConfigs
  /\ mediaKind \in MediaKinds
  /\ formats = IF mediaKind = "nosrc"
               THEN [desktop |-> NoPaths, mobile |-> << >>]
               ELSE VIDEO_PATHS
  /\ canPlay = BaselineRuntime
  /\ sources = MountedSources(formats, canPlay, videos)
  /\ videoSize = ClipSize
  /\ loadStage = [v \in Videos |-> 0]
  /\ innerWidth \in Dims /\ innerHeight \in Dims
  /\ FullWindowCanvas
  /\ mqMatches = PortraitQuery(innerWidth, innerHeight)
  /\ playAllowed \in BOOLEAN
  /\ last = "constructor"

\* The component calls controller.initialize() on the controller it has
\* constructed
Initialize ==
  /\ ~initialized
  /\ last = "constructor" /\ ~Threw(Cur)
  /\ \E f \in (IF gl THEN Failures ELSE {"none"}) :
       Commit(initialize(Begin("initialize"), f))

\* The promise of initialize() has not settled yet: initGL is suspended in
\* its await of selectVideo, or it has thrown and the catch block is queued
InitSuspended ==
  \/ \E i \in 1..Len(readyWaiters) : readyWaiters[i].init
  \/ \E i \in 1..Len(playWaiters) : playWaiters[i].init
  \/ \E i \in 1..Len(microtasks) : microtasks[i].init

\* The effect cleanup calls controller.dispose(); `last' tells a call that
\* directly follows another dispose() from one that does not
Dispose ==
  /\ initialized
  /\ LET op == IF last \in {"dispose", "disposeAgain"}
               THEN "disposeAgain" ELSE "dispose"
     IN Commit([dispose(Begin(op)) EXCEPT
                  !.disposed = TRUE,
                  !.disposedDuringInit = @ \/ InitSuspended])

\* The window is resized to w x h and the resize event reaches handleResize.
\* Once the listener is detached a resize runs no code of the controller
Resize ==
  /\ resizeListener /\ Idle /\ TaskCount < MaxTasks
  /\ \E w \in Dims, h \in Dims :
       /\ <<w, h>> # <<innerWidth, innerHeight>>
       /\ Commit(handleResize([Begin("resize") EXCEPT
                                 !.innerWidth = w, !.innerHeight = h,
                                 !.clientWidth = w, !.clientHeight = h]))

\* The media query changed its result and its change event reaches
\* handleOrientation
OrientationChange ==
  /\ orientationListener /\ Idle /\ TaskCount < MaxTasks
  /\ mqMatches # PortraitQuery(innerWidth, innerHeight)
  /\ Commit(handleOrientation([Begin("orientation") EXCEPT
                                 !.mqMatches = ~mqMatches]))

\* The user clicks, touches or presses a key: the gesture lifts the autoplay
\* policy and reaches handleUserInteraction if a listener for it is attached.
\* A gesture that does neither changes nothing
UserInteraction ==
  /\ initialized /\ Idle /\ TaskCount < MaxTasks
  /\ \E e \in InteractionEvents :
       LET s == [Begin("interaction") EXCEPT !.playAllowed = TRUE]
       IN /\ e \in interactionListeners \/ ~playAllowed
          /\ Commit(IF e \in s.interactionListeners
                    THEN handleUserInteraction(s) ELSE s)

\* The 50 ms timer set by handleUserInteraction expires
TimerFires ==
  /\ Idle /\ timers > 0 /\ TaskCount < MaxTasks
  /\ Commit(playAllVideos([Begin("timer") EXCEPT !.timers = @ - 1]))

\* The element v is the one the controller renders from or waits for.  The
\* load events of the other element change nothing the controller reads:
\* selectVideo reloads an element before it waits for it
Observed(v) ==
  \/ activeVideo = v
  \/ \E i \in 1..Len(readyWaiters) : readyWaiters[i].target = v

\* The next load event of an element's media fires
MediaEvent ==
  /\ Idle
  /\ mediaKind \in {"good", "nodims"}
  /\ \E v \in videos :
       /\ Observed(v)
       /\ loadStage[v] < 3
       /\ LET s == [Begin("mediaevent") EXCEPT !.loadStage[v] = @ + 1]
          IN Commit(onLoaded(s, v, LoadEventAt(loadStage[v])))

\* The promise of a video.play() that playVideo awaits settles; playVideo
\* catches a rejection, logs it and returns, and the selectVideo that awaits
\* playVideo resumes in a microtask
PlaySettles ==
  /\ Idle
  /\ \E i \in 1..Len(playWaiters), outcome \in {"resolve", "reject"} :
       LET w == playWaiters[i]
           s == [Begin("playsettled") EXCEPT
                   !.playWaiters = SubSeq(@, 1, i - 1) \o SubSeq(@, i + 1, Len(@)),
                   !.microtasks =
                     IF w.awaited
                     THEN Append(@, [k |-> "afterPlay", target |-> w.target,
                                     init |-> w.init])
                     ELSE @]
       IN Commit(IF outcome = "reject"
                 THEN Call(s, "warn autoplay prevented", "console") ELSE s)

\* The first queued continuation runs
RunMicrotask ==
  /\ microtasks # << >>
  /\ LET m == Head(microtasks)
         s == [Begin(m.k) EXCEPT !.microtasks = Tail(@)]
     IN Commit(runContinuation(s, m))

\* The browser runs a pending animation-frame callback; in one rendering
\* update it does so after it has dispatched resize and media-query events
FrameCallback ==
  /\ Idle
  /\ orientationListener => mqMatches = PortraitQuery(innerWidth, innerHeight)
  /\ \E h \in rafPending :
       Commit(renderFrame([Begin("frame") EXCEPT !.rafPending = @ \ {h}]))

\* The rendering context held by a live controller is lost; webglcontextlost
\* is dispatched on the canvas, to which the controller has attached no
\* listener, so the dispatch runs no code
ContextLost ==
  /\ Idle /\ initialized /\ gl /\ ~disposed
  /\ Commit(Begin("contextlost"))

Next ==
  \/ Initialize
  \/ Dispose
  \/ Resize
  \/ OrientationChange
  \/ UserInteraction
  \/ TimerFires
  \/ MediaEvent
  \/ PlaySettles
  \/ RunMicrotask
  \/ FrameCallback
  \/ ContextLost

Spec == Init /\ [][Next]_vars

----------------------------------------------------------------------------
\* The effect of the component, from the rendered page to initialize() and
\* the microtasks it queues

\* Viewport sizes of the effect, a collapsed window included
Dims0 == 0..MaxDim

\* The page is rendered: the elements have no <source> child yet and no
\* controller exists.  Media with no source to load is "nosrc"
MountInit ==
  /\ Fresh
  /\ page = NULL
  /\ gl = FALSE
  /\ videos \in VideoConfigs
  /\ formats \in VideoPathsConfigs
  /\ canPlay \in SUBSET MimeTypes
  /\ mediaKind = IF \A v \in videos :
                      MountedSources(formats, canPlay, videos)[v] = << >>
                 THEN "nosrc" ELSE "good"
  /\ sources = [v \in Videos |-> << >>]
  /\ videoSize = ClipSize
  /\ loadStage = [v \in Videos |-> 0]
  /\ innerWidth \in Dims0 /\ innerHeight \in Dims0
  /\ FullWindowCanvas
  /\ mqMatches = PortraitQuery(innerWidth, innerHeight)
  /\ playAllowed = FALSE
  /\ last = "render"

\* The effect sets the sources of the elements
SetSources ==
  /\ last = "render"
  /\ Commit(mountSources(Begin("setVideoSources")))

\* The effect constructs the controller
Construct ==
  /\ last = "setVideoSources"
  /\ \E outcome \in {"context", "null", "throws"} :
       Commit(constructor(Begin("constructor"), outcome))

MountNext ==
  \/ SetSources
  \/ Construct
  \/ Initialize
  \/ RunMicrotask

MountSpec == MountInit /\ [][MountNext]_vars

----------------------------------------------------------------------------
\* The readiness gate called on an element in any load state

GateInit ==
  /\ Fresh
  /\ page = NULL
  /\ gl \in BOOLEAN
  /\ videos \in VideoConfigs
  /\ mediaKind \in MediaKinds
  /\ formats = IF mediaKind = "nosrc"
               THEN [desktop |-> NoPaths, mobile |-> << >>]
               ELSE VIDEO_PATHS
  /\ canPlay = BaselineRuntime
  /\ sources = MountedSources(formats, canPlay, videos)
  /\ videoSize = ClipSize
  /\ loadStage \in [Videos -> 0..3]
  /\ innerWidth = 1 /\ innerHeight = 1
  /\ FullWindowCanvas
  /\ mqMatches = PortraitQuery(innerWidth, innerHeight)
  /\ playAllowed = FALSE
  /\ last = "constructor"

\* ensureVideoReady(v) is called
GateCall ==
  /\ Idle /\ TaskCount < MaxTasks
  /\ \E v \in videos :
       Commit(ensureVideoReady(Begin("ensureVideoReady"), v, FALSE))

\* The caller that awaits the gate is resumed
GateResolved ==
  /\ microtasks # << >>
  /\ Commit([Begin("resolved") EXCEPT !.microtasks = Tail(@)])

GateNext ==
  \/ GateCall
  \/ MediaEvent
  \/ GateResolved

GateSpec == GateInit /\ [][GateNext]_vars

----------------------------------------------------------------------------
\* The controller given both elements, with a context and loadable media, in
\* viewports up to MaxTall high, so that a resize can lead from one portrait
\* viewport to another as well as from one landscape viewport to another

Heights == 1..MaxTall

TallInit ==
  /\ Fresh
  /\ page = NULL
  /\ gl = TRUE
  /\ videos = Videos
  /\ mediaKind = "good"
  /\ formats = VIDEO_PATHS
  /\ canPlay = BaselineRuntime
  /\ sources = MountedSources(formats, canPlay, videos)
  /\ videoSize = ClipSize
  /\ loadStage = [v \in Videos |-> 0]
  /\ innerWidth \in Dims /\ innerHeight \in Heights
  /\ FullWindowCanvas
  /\ mqMatches = PortraitQuery(innerWidth, innerHeight)
  /\ playAllowed \in BOOLEAN
  /\ last = "constructor"

\* The window is resized to w x h and the resize event reaches handleResize
ResizeTall ==
  /\ resizeListener /\ Idle /\ TaskCount < MaxTasks
  /\ \E w \in Dims, h \in Heights :
       /\ <<w, h>> # <<innerWidth, innerHeight>>
       /\ Commit(handleResize([Begin("resize") EXCEPT
                                 !.innerWidth = w, !.innerHeight = h,
                                 !.clientWidth = w, !.clientHeight = h]))

TallNext ==
  \/ Initialize
  \/ Dispose
  \/ ResizeTall
  \/ OrientationChange
  \/ UserInteraction
  \/ TimerFires
  \/ MediaEvent
  \/ PlaySettles
  \/ RunMicrotask
  \/ FrameCallback

TallSpec == TallInit /\ [][TallNext]_vars

----------------------------------------------------------------------------
\* The controller on a full-window canvas of any size, from 0 x 0 on, on
\* screens of several pixel ratios, with clips of any intrinsic size

CanvasDims == 0..MaxCanvas

\* Values of window.devicePixelRatio: an absent one (falsy), a standard
\* screen, a zoomed page and a high-density screen
PixelRatios == {Whole(0), Whole(1), Frac(3, 2), Whole(2)}

\* The state after the construction of the controller with a context and
\* both elements, where autoplay is refused
UniformInit ==
  /\ Fresh
  /\ page = NULL
  /\ gl = TRUE
  /\ videos = Videos
  /\ mediaKind \in {"good", "nodims"}
  /\ formats = VIDEO_PATHS
  /\ canPlay = BaselineRuntime
  /\ sources = MountedSources(formats, canPlay, videos)
  /\ \E w \in VideoDims, h \in VideoDims :
       videoSize = [v \in Videos |-> <<w, h>>]
  /\ loadStage = [v \in Videos |-> 0]
  /\ innerWidth \in CanvasDims /\ innerHeight \in CanvasDims
  /\ clientWidth = innerWidth /\ clientHeight = innerHeight
  /\ devicePixelRatio \in PixelRatios
  /\ mqMatches = PortraitQuery(innerWidth, innerHeight)
  /\ playAllowed = FALSE
  /\ last = "constructor"

\* The component calls controller.initialize() and every call on the
\* context succeeds
UniformInitialize ==
  /\ ~initialized
  /\ last = "constructor"
  /\ Commit(initialize(Begin("initialize"), "none"))

\* The device is rotated: the window and the canvas laid out over it swap
\* width and height, and the resize event reaches handleResize
UniformResize ==
  /\ resizeListener /\ Idle /\ TaskCount < MaxTasks
  /\ innerWidth # innerHeight
  /\ Commit(handleResize([Begin("resize") EXCEPT
                            !.innerWidth = innerHeight,
                            !.innerHeight = innerWidth,
                            !.clientWidth = innerHeight,
                            !.clientHeight = innerWidth]))

UniformNext ==
  \/ UniformInitialize
  \/ FrameCallback
  \/ MediaEvent
  \/ UniformResize
  \/ OrientationChange
  \/ RunMicrotask

UniformSpec == UniformInit /\ [][UniformNext]_vars

----------------------------------------------------------------------------
\* HomePage and BottomBar: the bar at the bottom of the page and the
\* hover-close state of the background.  A handler reads the state of the
\* render that attached it; React re-renders and runs the effects again
\* before the next event is handled, so each action reads the current state

MIN_SWIPE_DISTANCE == 100
MAX_SWIPE_TIME == 500

\* clientY of a touch, and the milliseconds between touchstart and touchend
ClientYs == {0, 50, 150, 250}
SwipeTimes == {100, 500, 501}

\* checkMobile of HomePage and of BottomBar; m: hasTouch || isMobileUA ||
\* isSmallScreen
checkMobile(p, m) == [p EXCEPT !.isMobile = m]

barCheckMobile(p, m) == [p EXCEPT !.barIsMobile = m]

\* The handlers the first effect of HomePage attaches to the background
handleMouseEnter(p) ==
  IF ~p.isMobile /\ p.isBottomBarExpanded
  THEN [p EXCEPT !.isGlBackgroundHovered = TRUE]
  ELSE p

handleMouseLeave(p) ==
  IF ~p.isMobile THEN [p EXCEPT !.isGlBackgroundHovered = FALSE] ELSE p

\* handleClick that collapses the bar and keeps the hover-close state
handleClick_keepsHover(p) ==
  IF p.isBottomBarExpanded
  THEN [p EXCEPT !.isBottomBarExpanded = FALSE]
  ELSE p

handleClick(p) ==
  IF p.isBottomBarExpanded
  THEN [p EXCEPT !.isBottomBarExpanded = FALSE,
                 !.isGlBackgroundHovered = FALSE]
  ELSE p

\* The handlers of the swipe effect
handleTouchStart(p, touches, clientY) ==
  IF p.isBottomBarExpanded THEN p
  ELSE IF touches = 1 THEN [p EXCEPT !.touchStartY = clientY]
  ELSE p

handleTouchEnd(p, changedTouches, clientY, swipeTime) ==
  IF p.isBottomBarExpanded \/ p.touchStartY = 0
  THEN [p EXCEPT !.touchStartY = 0]
  ELSE
    LET swipeDistance == p.touchStartY - clientY
        q == IF /\ changedTouches = 1
                /\ swipeDistance >= MIN_SWIPE_DISTANCE
                /\ swipeTime <= MAX_SWIPE_TIME
             THEN [p EXCEPT !.isBottomBarExpanded = TRUE]
             ELSE p
    IN [q EXCEPT !.touchStartY = 0]

\* The handlers of BottomBar
handleHeaderClick(p) ==
  IF p.barIsMobile /\ p.recentHover THEN p
  ELSE IF ~p.isBottomBarExpanded
  THEN [p EXCEPT !.isBottomBarExpanded = TRUE, !.isHovered = FALSE]
  ELSE p

barHandleMouseEnter(p) ==
  IF p.barIsMobile THEN p
  ELSE LET q == [p EXCEPT !.recentHover = TRUE]
       IN IF ~q.isBottomBarExpanded THEN [q EXCEPT !.isHovered = TRUE] ELSE q

barHandleMouseLeave(p) ==
  IF p.barIsMobile THEN p
  ELSE IF ~p.isBottomBarExpanded THEN [p EXCEPT !.isHovered = FALSE]
  ELSE p

\* The render after the handlers of an event have turned p into q: when
\* isBottomBarExpanded or isMobile has changed the effects of HomePage run
\* again, and the swipe effect starts with touchStartY = 0
Rerender(p, q) ==
  IF q.isBottomBarExpanded # p.isBottomBarExpanded \/ q.isMobile # p.isMobile
  THEN [q EXCEPT !.touchStartY = 0]
  ELSE q

\* The page as rendered first; the controller plays no part in these runs
PageInit ==
  /\ Fresh
  /\ page = PageInitial
  /\ gl = FALSE
  /\ videos = Videos
  /\ mediaKind = "good"
  /\ videoSize = ClipSize
  /\ formats = VIDEO_PATHS
  /\ canPlay = BaselineRuntime
  /\ sources = [v \in Videos |-> << >>]
  /\ loadStage = [v \in Videos |-> 0]
  /\ innerWidth = 1 /\ innerHeight = 1
  /\ FullWindowCanvas
  /\ mqMatches = PortraitQuery(innerWidth, innerHeight)
  /\ playAllowed = FALSE
  /\ last = "render"

\* The mount effects, a resize or an orientation change run checkMobile in
\* both components.  In each action of the page the controller is not
\* involved, and the page is rendered again with the state the handlers set
MobileChecked ==
  /\ Controller(Begin("checkMobile"))
  /\ \E m \in BOOLEAN :
       page' = Rerender(page, barCheckMobile(checkMobile(page, m), m))

\* Mouse events on the background reach the handlers attached on desktop
BackgroundMouseEnter ==
  /\ ~page.isMobile
  /\ Controller(Begin("mouseenter"))
  /\ page' = Rerender(page, handleMouseEnter(page))

BackgroundMouseLeave ==
  /\ ~page.isMobile
  /\ Controller(Begin("mouseleave"))
  /\ page' = Rerender(page, handleMouseLeave(page))

BackgroundClick ==
  /\ Controller(Begin("click"))
  /\ page' = Rerender(page, handleClick(page))

\* touchstart on the background: only the swipe effect listens to it
BackgroundTouchStart ==
  /\ page.isMobile
  /\ Controller(Begin("touchstart"))
  /\ \E touches \in {1, 2}, y \in ClientYs :
       page' = Rerender(page, handleTouchStart(page, touches, y))

\* touchend on the background: handleClick runs, then handleTouchEnd where
\* the swipe effect has attached it, both on the state of the same render
BackgroundTouchEnd ==
  /\ Controller(Begin("touchend"))
  /\ \E changedTouches \in {1, 2}, y \in ClientYs, t \in SwipeTimes :
       LET a == handleClick(page)
           b == IF page.isMobile
                THEN handleTouchEnd(page, changedTouches, y, t)
                ELSE page
       IN page' = Rerender(page,
                    [a EXCEPT !.touchStartY = b.touchStartY,
                              !.isBottomBarExpanded =
                                IF b.isBottomBarExpanded
                                     # page.isBottomBarExpanded
                                THEN b.isBottomBarExpanded ELSE @])

\* Click or touchstart on the bar
HeaderClick ==
  /\ Controller(Begin("headerClick"))
  /\ page' = Rerender(page, handleHeaderClick(page))

BarMouseEnter ==
  /\ Controller(Begin("barMouseEnter"))
  /\ page' = Rerender(page, barHandleMouseEnter(page))

BarMouseLeave ==
  /\ Controller(Begin("barMouseLeave"))
  /\ page' = Rerender(page, barHandleMouseLeave(page))

\* 300 ms have passed since the mouse entered the bar
HoverAges ==
  /\ page.recentHover
  /\ Controller(Begin("hoverAged"))
  /\ page' = [page EXCEPT !.recentHover = FALSE]

PageNext ==
  \/ MobileChecked
  \/ BackgroundMouseEnter
  \/ BackgroundMouseLeave
  \/ BackgroundClick
  \/ BackgroundTouchStart
  \/ BackgroundTouchEnd
  \/ HeaderClick
  \/ BarMouseEnter
  \/ BarMouseLeave
  \/ HoverAges

PageSpec == PageInit /\ [][PageNext]_vars

----------------------------------------------------------------------------
\* Modes of the controller and views of the state

\* FallbackMode: initialize() found or left the controller without a context
FallbackMode == initialized /\ ~gl

\* Running: the frame loop is scheduled, the program is built and an active
\* element is bound
Running == gl /\ program /\ activeVideo # NULL /\ rafPending # {}

\* The elements matching and not matching the viewport orientation
Primary ==
  IF UseLandscape(innerWidth, innerHeight)
  THEN Elem(Cur, "landscape") ELSE Elem(Cur, "portrait")

Secondary ==
  IF UseLandscape(innerWidth, innerHeight)
  THEN Elem(Cur, "portrait") ELSE Elem(Cur, "landscape")

\* The fields of the controller
ControllerState ==
  <<gl, program, positionBuffer, texture, positionLocation, uniforms,
    activeVideo, needsTextureUpload, videoMetadataLoaded, animationHandle,
    hasUserInteracted>>

\* What the controller has set up on the platform
PlatformState ==
  <<paused, loadStage, fallbackClass, preload, canvasSize, resizeListener,
    orientationListener, interactionListeners, rafPending, timers>>

\* The last action was a call of dispose()
JustDisposed == last \in {"dispose", "disposeAgain"}

\* The last action issued the call op
Issued(op) == \E i \in 1..Len(calls) : calls[i].op = op

\* No continuation, playback promise, readiness promise or timer is pending
Settled ==
  /\ microtasks = << >> /\ playWaiters = << >> /\ readyWaiters = << >>
  /\ timers = 0

----------------------------------------------------------------------------
\* Teardown

\* C1: when dispose() is called while initialize() is still suspended in
\* selectVideo, no animation-frame callback is pending afterwards, neither
\* right after dispose() nor once the awaited promises have resolved and
\* initGL has resumed.
C1_NoFrameAfterDisposeDuringInit ==
  disposedDuringInit => rafPending = {}

\* C2: after dispose(), a readiness promise, a playback promise or the 50 ms
\* retry timer that completes is inert: the step issues no play() on a
\* managed element, no call on the rendering context or the canvas, and
\* changes no field of the controller.
LateSteps ==
  {"mediaevent", "playsettled", "playRejected", "playRejectedAwaited",
   "afterReady", "afterPlay", "initGL", "timer"}

C2_LateCompletionIsInert ==
  [][(disposed /\ last' \in LateSteps) =>
       /\ \A i \in 1..Len(calls') :
            calls'[i].op # "play" /\ calls'[i].on \notin {"gl", "canvas"}
       /\ ControllerState' = ControllerState]_vars

\* C3: right after dispose() returns, from whatever state it was called, no
\* frame callback is pending, the resize, orientation and interaction
\* listeners are detached and texture, buffer and program are null.
C3_DisposeReleasesEverything ==
  JustDisposed =>
    /\ rafPending = {}
    /\ ~resizeListener /\ ~orientationListener /\ interactionListeners = {}
    /\ ~texture /\ ~positionBuffer /\ ~program

\* dispose() has just torn down a running controller: it cancelled the
\* frame callback and deleted texture, buffer and program
C3_Witness ==
  /\ JustDisposed
  /\ Issued("cancelAnimationFrame")
  /\ Issued("deleteTexture") /\ Issued("deleteBuffer")
  /\ Issued("deleteProgram")

\* C4: a dispose() that directly follows a dispose() issues no delete, cancel
\* or pause call and leaves the controller and everything it set up on the
\* platform as the first call left them.
C4_DisposeIdempotent ==
  [][last' = "disposeAgain" =>
       /\ \A i \in 1..Len(calls') :
            calls'[i].op \notin {"deleteTexture", "deleteBuffer",
                                 "deleteProgram", "cancelAnimationFrame",
                                 "pause"}
       /\ ControllerState' = ControllerState
       /\ PlatformState' = PlatformState]_vars

\* A second dispose() in a row, on a controller whose first dispose() had a
\* program to delete and an active element to pause
C4_Witness ==
  /\ last = "disposeAgain"
  /\ gl /\ uniforms /\ ~program
  /\ activeVideo # NULL /\ playAllowed

\* C5: after dispose() returns, no managed media element is left playing.
C5_DisposePausesAllMedia ==
  JustDisposed => \A v \in videos : paused[v]

----------------------------------------------------------------------------
\* Fallback

\* initialize() has just failed to set up the surface (no context, or initGL
\* threw) and logged the diagnostic
InitFailed ==
  \/ last = "initialize" /\ Issued("warn WebGL unavailable")
  \/ last = "initFailed" /\ Issued("warn WebGL initialization failed")

\* enableFallbackVideo has just run: the matching element is shown and was
\* told to play, the other one is hidden and paused
FallbackActivated ==
  /\ Primary # NULL =>
       /\ fallbackClass[Primary]
       /\ \E i \in 1..Len(calls) : calls[i] = [op |-> "play", on |-> Primary]
  /\ Secondary # NULL => ~fallbackClass[Secondary] /\ paused[Secondary]

\* C6 (as stated): any failure of surface initialization leaves the
\* controller in FallbackMode with no context, every GPU object created so
\* far released, no frame callback scheduled and the fallback presenter
\* activated.
C6_InitFailureReleasesAllObjects ==
  InitFailed =>
    /\ FallbackMode
    /\ ~texture /\ ~positionBuffer /\ ~program /\ shaders = 0
    /\ rafPending = {}
    /\ FallbackActivated

\* C6 (amended): as above for the texture, the vertex buffer and the program,
\* the objects the controller holds; shader objects are left undeleted.
C6_InitFailureFallsBack ==
  InitFailed =>
    /\ FallbackMode
    /\ ~texture /\ ~positionBuffer /\ ~program
    /\ rafPending = {}
    /\ FallbackActivated

\* initGL threw when the texture could not be created, after the program and
\* the buffer had been created; the catch block of initialize() has deleted
\* both and has activated the fallback
C6_Witness ==
  /\ last = "initFailed" /\ InitFailed /\ ~disposed
  /\ Issued("deleteBuffer") /\ Issued("deleteProgram")
  /\ ~Issued("deleteTexture")
  /\ Primary # NULL /\ fallbackClass[Primary]

\* C7: in FallbackMode, once every pending promise and timer has settled, the
\* element matching the viewport orientation is shown and playing (when the
\* policy lets it play) and the other element is hidden and paused.
C7_FallbackShowsPrimary ==
  (FallbackMode /\ ~disposed /\ Settled /\ Primary # NULL) =>
    /\ fallbackClass[Primary]
    /\ playAllowed => ~paused[Primary]
    /\ Secondary # NULL => ~fallbackClass[Secondary] /\ paused[Secondary]

\* C8: once the controller is in FallbackMode no step issues a call on the
\* rendering context.
C8_NoGpuCallInFallback ==
  [][FallbackMode => \A i \in 1..Len(calls') : calls'[i].on # "gl"]_vars

\* In FallbackMode the selection started by a user interaction has run to
\* its end, forced resize included
C8_Witness ==
  /\ FallbackMode
  /\ last = "afterPlay"
  /\ activeVideo # NULL

\* C9: when the loss of the rendering context has been reported (the
\* webglcontextlost event has been dispatched), the controller is in
\* FallbackMode, also when it was Running.
C9_ContextLossMeansFallback ==
  last = "contextlost" => FallbackMode

\* C10: once initialize() has been called and nothing is left to complete
\* (no continuation, playback promise or timer pending and no load event to
\* come), the controller is Running or is in FallbackMode with the matching
\* element shown.
NoProgressLeft ==
  /\ microtasks = << >> /\ playWaiters = << >> /\ timers = 0
  /\ ~ENABLED MediaEvent

C10_InitReachesOperational ==
  (initialized /\ ~disposed /\ NoProgressLeft /\ Primary # NULL) =>
    \/ Running
    \/ FallbackMode /\ Primary # NULL /\ fallbackClass[Primary]

----------------------------------------------------------------------------
\* Error handling

\* The last step ended with an exception that no catch block of the
\* controller handled: the browser reports an uncaught error
Uncaught == Threw(Cur)

\* C11: no failure ends as an uncaught error: whenever a step has raised an
\* exception (context acquisition throwing included), the controller is
\* Running or in FallbackMode.
C11_FailureEndsOperational ==
  Uncaught => Running \/ FallbackMode

----------------------------------------------------------------------------
\* Orientation and source selection

\* width / height >= 1 in floating point: x/0 is Infinity, 0/0 is NaN
AspectAtLeastOne(w, h) ==
  IF h = 0 THEN w > 0 ELSE w >= h

\* The orientation decisions taken so far chose landscape: the effect gave
\* the landscape element full preload, and initialize() made it the active
\* element or, without a context or after initGL has failed, the shown one
ChoseLandscape ==
  IF last = "setVideoSources" THEN preload["landscape"] = "auto"
  ELSE IF gl THEN activeVideo = "landscape"
  ELSE fallbackClass["landscape"]

\* initGL threw and the catch block of initialize() has not run yet
InitRejected == \E i \in 1..Len(microtasks) : microtasks[i].k = "initFailed"

\* A decision between two given elements has just been taken: by the
\* effect, by initialize() unless initGL threw before its selection, or by
\* the catch block of initialize()
DecisionTaken ==
  /\ videos = Videos
  /\ \/ last = "setVideoSources"
     \/ last = "initialize" /\ ~InitRejected
     \/ last = "initFailed"

\* C12 (as stated): for every viewport width and height, 0 included, the
\* decision is landscape exactly when width / height >= 1.
C12_LandscapeIffRatioAtLeastOne ==
  DecisionTaken =>
    (ChoseLandscape <=> AspectAtLeastOne(innerWidth, innerHeight))

\* C12 (amended): the decision is landscape exactly when width / height >= 1
\* or the width is 0 (a ratio of 0 or NaN is replaced by 1); a square
\* viewport selects landscape.
C12_LandscapeIffWideOrCollapsed ==
  DecisionTaken =>
    (ChoseLandscape <=> (innerWidth = 0 \/ innerWidth >= innerHeight))

\* initialize() has chosen the landscape element in a viewport of width 0
C12_Witness ==
  /\ DecisionTaken /\ last = "initialize"
  /\ innerWidth = 0 /\ innerHeight > 0
  /\ gl /\ activeVideo = "landscape"

\* C13: with no portrait clip configured (VIDEO_PATHS.mobile null), the
\* portrait element is given exactly the sources selected from the desktop
\* format set, those of the landscape element.
C13_PortraitUsesLandscapeSources ==
  (last # "render" /\ formats.mobile = << >> /\ "portrait" \in videos) =>
    /\ sources["portrait"] = setVideoSources(formats.desktop, canPlay)
    /\ sources["portrait"] = sources["landscape"]

\* In a portrait viewport the portrait element has received the three
\* desktop sources
C13_Witness ==
  /\ last = "setVideoSources"
  /\ formats.mobile = << >> /\ "portrait" \in videos
  /\ ~UseLandscape(innerWidth, innerHeight)
  /\ Len(sources["portrait"]) = 3
  /\ sources["portrait"][3].src = getAssetPath(DesktopPaths.h264)

\* Position of an encoding in the order best compression first
Rank(type) ==
  CASE type = Av1Type -> 1
    [] type = Vp9Type -> 2
    [] OTHER          -> 3

HasType(v, type) ==
  \E i \in 1..Len(sources[v]) : sources[v][i].type = type

\* The path the format set fmts supplies for the encoding of a MIME type
PathOf(fmts, type) ==
  CASE type = Av1Type -> fmts.av1
    [] type = Vp9Type -> fmts.vp9
    [] OTHER          -> fmts.h264

\* C18: for every format set that supplies the mandatory path and every
\* capability record, an optional encoding is among the selected sources
\* exactly when the probe reports support and the set supplies its path;
\* the sources are in the order AV1, VP9, H.264, each with the path of its
\* encoding; with no optional encoding supported the result is the fallback
\* alone, with both supported and configured it is all three.
C18_OptionalIffSupportedAndConfigured ==
  last # "render" =>
    \A v \in videos :
      LET fmts == FormatsFor(formats, v)
          codecSupport == detectVideoCodecSupport(canPlay)
          n == Len(sources[v])
      IN fmts.h264 # NULL =>
           /\ HasType(v, Av1Type) <=> (codecSupport.supportsAV1 /\ fmts.av1 # NULL)
           /\ HasType(v, Vp9Type) <=> (codecSupport.supportsVP9 /\ fmts.vp9 # NULL)
           /\ \A i \in 1..n :
                /\ sources[v][i].src = getAssetPath(PathOf(fmts, sources[v][i].type))
                /\ \A j \in (i + 1)..n :
                     Rank(sources[v][i].type) < Rank(sources[v][j].type)
           /\ (~codecSupport.supportsAV1 /\ ~codecSupport.supportsVP9) =>
                sources[v] = <<[src |-> getAssetPath(fmts.h264), type |-> H264Type]>>
           /\ (/\ codecSupport.supportsAV1 /\ fmts.av1 # NULL
               /\ codecSupport.supportsVP9 /\ fmts.vp9 # NULL) =>
                /\ n = 3
                /\ sources[v][1].type = Av1Type
                /\ sources[v][2].type = Vp9Type
                /\ sources[v][3].type = H264Type

\* Both optional encodings are supported but only VP9 has a path: two
\* sources, VP9 first
C18_Witness ==
  /\ last = "setVideoSources"
  /\ Av1Type \in canPlay /\ Vp9Type \in canPlay
  /\ formats.desktop.av1 = NULL
  /\ Len(sources["landscape"]) = 2
  /\ sources["landscape"][1].type = Vp9Type

\* C19: the H.264 entry is the last selected source whatever the probe
\* reports for H.264, for every format set that supplies its path, so the
\* selected sources are not empty.
C19_FallbackAlwaysLast ==
  last # "render" =>
    \A v \in videos :
      LET fmts == FormatsFor(formats, v)
      IN fmts.h264 # NULL =>
           /\ sources[v] # << >>
           /\ sources[v][Len(sources[v])] =
                [src |-> getAssetPath(fmts.h264), type |-> H264Type]

\* The runtime answers neither H.264 question and the landscape element
\* still ends with the H.264 source
C19_Witness ==
  /\ last = "setVideoSources"
  /\ ~detectVideoCodecSupport(canPlay).supportsH264
  /\ sources["landscape"] # << >>
  /\ sources["landscape"][Len(sources["landscape"])].type = H264Type

\* A format set given to an element lacks the mandatory path
MandatoryMissing ==
  \E v \in videos : FormatsFor(formats, v).h264 = NULL

\* C20: with the mandatory path missing from the configuration the
\* controller is neither constructed nor started.
C20_MissingMandatoryPathStopsStartup ==
  MandatoryMissing => last \in {"render", "setVideoSources"}

\* C14: with the portrait element null and the landscape element given, in
\* a portrait viewport, once the selections have settled on media that loads
\* and may play, the landscape element is playing and, with a context, is
\* the active element.
C14_NullPortraitFallsBackToLandscape ==
  (/\ initialized /\ ~disposed /\ Settled
   /\ videos = {"landscape"}
   /\ ~UseLandscape(innerWidth, innerHeight)
   /\ mediaKind = "good" /\ playAllowed) =>
    /\ ~paused["landscape"]
    /\ gl => activeVideo = "landscape"

\* C15: with a context and both elements given loadable media, once every
\* selection in flight has settled and the orientation change has been
\* delivered, the active element is the one matching the viewport and no
\* other element is playing.
C15_ExactlyOneActive ==
  (/\ initialized /\ ~disposed /\ gl /\ Settled
   /\ videos = Videos /\ mediaKind = "good"
   /\ mqMatches = PortraitQuery(innerWidth, innerHeight)) =>
    /\ activeVideo = Primary
    /\ \A v \in videos \ {Primary} : paused[v]

----------------------------------------------------------------------------
\* Readiness gate

\* Position of a load event in the order a load fires them
StageOf(e) ==
  CASE e = "loadedmetadata" -> 0
    [] e = "loadeddata"     -> 1
    [] OTHER                -> 2

\* The pending gate call w can still be resolved: an event it listens to
\* is still to come on media whose size becomes known
CanStillResolve(w) ==
  /\ mediaKind = "good"
  /\ \E e \in w.listening : StageOf(e) >= loadStage[w.target]

\* C16: no call of the readiness gate is left pending without an event to
\* come that resolves it.
C16_GateNeverHangs ==
  \A i \in 1..Len(readyWaiters) : CanStillResolve(readyWaiters[i])

\* C17: a call of the gate on an element that reports its intrinsic width
\* and height resolves, issues no load on it and attaches no listener to it.
C17_GateIdempotentOnReadyHandle ==
  [][last' = "ensureVideoReady" =>
       \A v \in videos :
         DimsKnown(Cur, v) =>
           /\ \A i \in 1..Len(calls') : calls'[i] # [op |-> "load", on |-> v]
           /\ \A i \in (Len(readyWaiters) + 1)..Len(readyWaiters') :
                readyWaiters'[i].target # v]_vars

----------------------------------------------------------------------------
\* User interaction and playback

\* The action that led to the next state issued the call op on the object on
IssuedNext(op, on) ==
  \E i \in 1..Len(calls') : calls'[i].op = op /\ calls'[i].on = on

\* C21: the interaction listeners are one-shot.  An interaction event that
\* finds them attached attempts playback on every given element and leaves
\* no interaction listener attached; an interaction event that finds none
\* attached issues no call, starts no selection and changes no field of the
\* controller.
C21_InteractionListenersOneShot ==
  [][last' = "interaction" =>
       IF interactionListeners # {}
       THEN /\ \A v \in videos : IssuedNext("play", v)
            /\ interactionListeners' = {}
            /\ hasUserInteracted'
       ELSE /\ calls' = << >>
            /\ ControllerState' = ControllerState
            /\ paused' = paused /\ loadStage' = loadStage
            /\ readyWaiters' = readyWaiters /\ playWaiters' = playWaiters
            /\ timers' = timers]_vars

\* The first interaction has attempted playback on both elements and has
\* detached the listeners
C21_Witness ==
  /\ last = "interaction" /\ hasUserInteracted /\ ~disposed
  /\ videos = Videos
  /\ \A v \in videos :
       \E i \in 1..Len(calls) : calls[i] = [op |-> "play", on |-> v]
  /\ interactionListeners = {}

\* The step completes a selection whose playback attempt was rejected: the
\* play() that selectVideo does not await is refused by the autoplay policy,
\* or selectVideo resumes after the play() it awaited has rejected
RejectedPlayStep ==
  \/ last' = "afterReady" /\ ~hasUserInteracted /\ ~playAllowed
  \/ /\ last \in {"playsettled", "playRejectedAwaited"}
     /\ Issued("warn autoplay prevented")
     /\ last' = "afterPlay"

\* The step runs the catch block of playVideo: the promise of a play() has
\* rejected, at once or after it was pending
CaughtRejectionStep ==
  \/ last' \in {"playRejected", "playRejectedAwaited"}
  \/ last' = "playsettled" /\ IssuedNext("warn autoplay prevented", "console")

\* C22: a rejected playback attempt is not fatal.  The step that catches
\* the rejection only logs it and changes nothing of the controller; the
\* step that completes the selection raises no exception, leaves the
\* context, the mode and the active element as they were, marks the texture
\* for upload and, with a context, sets the canvas size, the viewport and
\* the uniforms.
C22_RejectedPlayIsNotFatal ==
  [][/\ CaughtRejectionStep =>
          /\ calls' = <<[op |-> "warn autoplay prevented", on |-> "console"]>>
          /\ ControllerState' = ControllerState
          /\ PlatformState' = PlatformState
          /\ initialized' = initialized
     /\ RejectedPlayStep =>
          /\ ~Threw(Cur')
          /\ gl' = gl /\ initialized' = initialized
          /\ activeVideo' = activeVideo
          /\ needsTextureUpload'
          /\ gl =>
               /\ IssuedNext("setSize", "canvas")
               /\ canvasSize' = DisplaySize(Cur)
               /\ IssuedNext("viewport", "gl")
               /\ (program /\ uniforms /\ activeVideo # NULL) =>
                    IssuedNext("uniform1i", "gl")]_vars

\* With a context and autoplay refused, the selection of initialize() has
\* completed: the element is still paused, the texture is marked and the
\* resize was forced
C22_Witness ==
  /\ last = "afterReady" /\ ~hasUserInteracted /\ ~playAllowed
  /\ gl /\ program /\ activeVideo # NULL /\ paused[activeVideo]
  /\ Issued("play") /\ Issued("setSize") /\ Issued("uniform1i")
  /\ needsTextureUpload

----------------------------------------------------------------------------
\* Frames

\* The step runs renderFrame, from the frame callback or at the end of
\* initGL, and the frame is drawn
DrawnFrameStep ==
  /\ last' \in {"frame", "initGL"}
  /\ IssuedNext("drawArrays", "gl")

\* C23 (as stated): a drawn frame uploads the media frame exactly when the
\* texture is marked for upload or the active element is playing.
C23_UploadIffDirtyOrAdvancing ==
  [][DrawnFrameStep =>
       (IssuedNext("texImage2D", "gl") <=>
          (needsTextureUpload \/ ~paused[activeVideo]))]_vars

\* C23 (amended): a drawn frame uploads the media frame exactly when the
\* active element reports its intrinsic size and the texture is marked for
\* upload, or the element is playing, or its metadata has been seen and it
\* holds current data; the upload clears the mark and a frame without upload
\* leaves it.
C23_UploadIffNeededAndSized ==
  [][DrawnFrameStep =>
       /\ IssuedNext("texImage2D", "gl") <=>
            /\ DimsKnown(Cur, activeVideo)
            /\ \/ needsTextureUpload
               \/ ~paused[activeVideo]
               \/ videoMetadataLoaded /\ HasCurrentData(Cur, activeVideo)
       /\ needsTextureUpload' =
            (needsTextureUpload /\ ~IssuedNext("texImage2D", "gl"))]_vars

\* A frame was drawn without upload: the element is paused, the texture is
\* not marked and the element holds no current data yet
C23_Witness ==
  /\ last = "frame" /\ Issued("drawArrays") /\ ~Issued("texImage2D")
  /\ activeVideo # NULL /\ paused[activeVideo]
  /\ ~needsTextureUpload
  /\ videoMetadataLoaded /\ ~HasCurrentData(Cur, activeVideo)

\* The positions in the calls of the step at which op is issued
CallsNext(op) == {i \in 1..Len(calls') : calls'[i].op = op}

\* C24: in every drawn frame the upload, when there is one, comes first,
\* then the uniforms are set, then the draw call is issued, and the request
\* for the next frame is the last call of the step.
C24_FrameStepsInOrder ==
  [][DrawnFrameStep =>
       /\ Cardinality(CallsNext("drawArrays")) = 1
       /\ \A d \in CallsNext("drawArrays") :
            /\ \E u \in CallsNext("uniform1i") :
                 /\ u < d
                 /\ \A t \in CallsNext("texImage2D") : t < u
                 /\ \A c \in CallsNext("clear") : c < u
            /\ CallsNext("requestAnimationFrame") = {Len(calls')}
            /\ d < Len(calls')]_vars

\* A frame has uploaded, set the uniforms, drawn and requested the next
\* frame
C24_Witness ==
  /\ last = "frame"
  /\ Issued("texImage2D") /\ Issued("uniform1i") /\ Issued("drawArrays")
  /\ calls[Len(calls)].op = "requestAnimationFrame"

\* C25: a frame callback that finds no context, no program or no active
\* element issues no call but the request for the next frame, which leaves
\* exactly one more callback pending than the callbacks still waiting.
C25_IdleFrameOnlyReschedules ==
  [][(last' = "frame" /\ (~gl \/ ~program \/ activeVideo = NULL)) =>
       /\ calls' = <<[op |-> "requestAnimationFrame", on |-> "window"]>>
       /\ Cardinality(rafPending') = Cardinality(rafPending)
       /\ animationHandle' \in rafPending'
       /\ needsTextureUpload' = needsTextureUpload]_vars

\* With a context and a program but no active element, a frame callback
\* has only requested the next frame
C25_Witness ==
  /\ last = "frame" /\ ~disposed
  /\ gl /\ program /\ activeVideo = NULL
  /\ calls = <<[op |-> "requestAnimationFrame", on |-> "window"]>>
  /\ Cardinality(rafPending) = 1

----------------------------------------------------------------------------
\* Resize and orientation

\* The step issues a pause, load or play on some element
MediaCallNext ==
  \E i \in 1..Len(calls') : calls'[i].op \in {"pause", "load", "play"}

\* C26: a resize event in Running state sets the canvas to the new size,
\* the viewport and the uniforms within the handler, so every frame drawn
\* afterwards computes its uniforms from the size of the viewport; if the
\* new viewport has the orientation of the old one, the handler issues no
\* pause, load or play and the active element stays.
C26_ResizeInRunning ==
  [][/\ (last' = "resize" /\ Running) =>
          /\ canvasSize' = <<innerWidth', innerHeight'>>
          /\ IssuedNext("viewport", "gl")
          /\ IssuedNext("uniform1i", "gl")
          /\ (UseLandscape(innerWidth', innerHeight')
                = UseLandscape(innerWidth, innerHeight)) =>
               /\ ~MediaCallNext
               /\ activeVideo' = activeVideo
     /\ DrawnFrameStep => canvasSize' = <<innerWidth, innerHeight>>]_vars

\* A resize event has reached the running controller in a portrait viewport
\* of the largest height with the portrait element active and playing: the
\* handler has set the canvas to the new size, the viewport and the uniforms
\* and has issued no call on an element, as it does when the viewport was a
\* portrait one before
C26_Witness ==
  /\ last = "resize" /\ Running /\ ~disposed
  /\ innerHeight = MaxTall /\ ~UseLandscape(innerWidth, innerHeight)
  /\ activeVideo = "portrait" /\ ~paused["portrait"]
  /\ canvasSize = <<innerWidth, innerHeight>>
  /\ Issued("setSize") /\ Issued("viewport") /\ Issued("uniform1i")
  /\ ~Issued("pause") /\ ~Issued("load") /\ ~Issued("play")

\* The texture becomes marked for upload in the step
MarkedNext == ~needsTextureUpload /\ needsTextureUpload'

\* selectVideo starts a switch in the step: another element becomes active
SwitchStep == activeVideo' # NULL /\ activeVideo' # activeVideo

\* Every call op on the element a comes before every call op2 on b in the
\* calls of the step
BeforeNext(op, a, op2, b) ==
  \A i, j \in 1..Len(calls') :
    (calls'[i] = [op |-> op, on |-> a] /\ calls'[j] = [op |-> op2, on |-> b])
      => i < j

\* C27 (as stated): the texture is marked for upload only by a step of the
\* selection that has attempted playback on the target, the step that
\* resumes after readiness or the one that resumes after the awaited play.
C27_MarkedOnlyAfterPlayAttempt ==
  [][MarkedNext => last' \in {"afterReady", "afterPlay"}]_vars

\* C27 (amended): a switch pauses the element that was active before it
\* loads the target, then waits for readiness without marking the texture
\* or attempting playback; the readiness gate marks the texture when it
\* resolves; the selection then attempts playback, and after the attempt
\* marks the texture and forces the resize.  Nothing else marks the texture.
C27_SwitchStepsInOrder ==
  [][/\ SwitchStep =>
          /\ activeVideo # NULL =>
               /\ paused'[activeVideo]
               /\ ~paused[activeVideo] => IssuedNext("pause", activeVideo)
               /\ BeforeNext("pause", activeVideo, "load", activeVideo')
          /\ IssuedNext("load", activeVideo')
          /\ BeforeNext("play", activeVideo', "load", activeVideo')
          /\ needsTextureUpload' = needsTextureUpload
          /\ \/ Len(readyWaiters') = Len(readyWaiters) + 1
             \/ /\ microtasks' # << >>
                /\ microtasks'[Len(microtasks')].k = "afterReady"
     /\ MarkedNext => last' \in {"mediaevent", "afterReady", "afterPlay"}
     /\ (last' = "mediaevent" /\ MarkedNext) =>
          /\ Len(microtasks') > Len(microtasks)
          /\ ~MediaCallNext
     /\ last' = "afterReady" =>
          LET target == Head(microtasks).target
          IN /\ IssuedNext("play", target)
             /\ IF hasUserInteracted
                THEN /\ Len(playWaiters') = Len(playWaiters) + 1
                     /\ needsTextureUpload' = needsTextureUpload
                     /\ ~IssuedNext("setSize", "canvas")
                ELSE /\ needsTextureUpload'
                     /\ gl => IssuedNext("setSize", "canvas")
                     /\ BeforeNext("play", target, "setSize", "canvas")
     /\ last' = "afterPlay" =>
          /\ needsTextureUpload'
          /\ gl => IssuedNext("setSize", "canvas")
          /\ ~MediaCallNext]_vars

\* A switch to the portrait element has resumed after the play it awaited:
\* the landscape element is paused, the texture is marked and the resize
\* was forced
C27_Witness ==
  /\ last = "afterPlay" /\ gl /\ hasUserInteracted
  /\ activeVideo = "portrait" /\ ~paused["portrait"]
  /\ paused["landscape"]
  /\ needsTextureUpload /\ Issued("setSize")

\* C28: a selection whose target is the active element is skipped.  The
\* orientation handler, which only selects, then issues no call and changes
\* nothing; the resize handler, which sets the canvas size before it
\* selects, then issues no pause, load or play, does not mark the texture
\* and changes nothing of the selection.
C28_SameTargetSkipped ==
  [][/\ (last' = "orientation" /\ gl /\ activeVideo # NULL
         /\ activeVideo = Primary) =>
          /\ calls' = << >>
          /\ ControllerState' = ControllerState
          /\ PlatformState' = PlatformState
          /\ readyWaiters' = readyWaiters /\ playWaiters' = playWaiters
          /\ microtasks' = microtasks
     /\ (last' = "resize" /\ gl /\ activeVideo # NULL
         /\ activeVideo = Primary') =>
          /\ ~MediaCallNext
          /\ activeVideo' = activeVideo
          /\ needsTextureUpload' = needsTextureUpload
          /\ videoMetadataLoaded' = videoMetadataLoaded
          /\ paused' = paused /\ loadStage' = loadStage
          /\ preload' = preload /\ fallbackClass' = fallbackClass
          /\ readyWaiters' = readyWaiters /\ playWaiters' = playWaiters
          /\ microtasks' = microtasks]_vars

\* In Running state the orientation handler has found the target active
\* and has done nothing
C28_Witness ==
  /\ last = "orientation" /\ Running /\ ~disposed
  /\ activeVideo = Primary
  /\ calls = << >>

\* C29: the frame loop begins only after the selection started by initGL
\* has returned and the resize was forced.  While that selection is pending
\* no frame callback is pending and nothing was drawn; a step other than a
\* frame callback requests a frame only as the resumed initGL, after it has
\* set the canvas size and the viewport, and, when an element was selected,
\* with the texture marked by the completed selection.
C29_LoopStartsAfterFirstSelection ==
  [][/\ InitSuspended' => (rafPending' = {} /\ ~IssuedNext("drawArrays", "gl"))
     /\ (IssuedNext("requestAnimationFrame", "window") /\ last' # "frame") =>
          /\ last' = "initGL"
          /\ ~InitSuspended'
          /\ BeforeNext("setSize", "canvas", "requestAnimationFrame", "window")
          /\ BeforeNext("viewport", "gl", "requestAnimationFrame", "window")
          /\ gl => (IssuedNext("setSize", "canvas") /\ IssuedNext("viewport", "gl"))
          /\ (gl /\ activeVideo # NULL) => needsTextureUpload]_vars

\* The resumed initGL has forced the resize and drawn the first frame of
\* the element it selected
C29_Witness ==
  /\ last = "initGL" /\ ~disposed /\ gl /\ activeVideo # NULL
  /\ Issued("setSize") /\ Issued("drawArrays")
  /\ calls[Len(calls)].op = "requestAnimationFrame"
  /\ rafPending # {}

\* C30: the resize handler and the orientation handler take the same
\* decision, that of the aspect ratio of the viewport: after either, with
\* a context the active element is the one matching the viewport, and
\* without a context that element is shown and every other element is
\* hidden and paused.  The selection is a function of the viewport alone, so
\* a trigger repeated in the same viewport selects the same element.
C30_TriggersDecideAlike ==
  (last \in {"resize", "orientation"} /\ Primary # NULL) =>
    IF gl THEN activeVideo = Primary
    ELSE /\ fallbackClass[Primary]
         /\ \A v \in videos \ {Primary} : ~fallbackClass[v] /\ paused[v]

\* The media query has changed at a square viewport, where its result and
\* the aspect ratio differ, and the orientation handler has kept the
\* landscape element
C30_Witness ==
  /\ last = "orientation" /\ ~disposed /\ videos = Videos
  /\ innerWidth = innerHeight /\ mqMatches
  /\ Primary = "landscape"
  /\ IF gl THEN activeVideo = "landscape" ELSE fallbackClass["landscape"]

----------------------------------------------------------------------------
\* Preload

\* C31: from the construction of the controller on at most one of the two
\* elements has preload "auto"; once an element has been selected, it is the
\* one with preload "auto" and every other managed element has preload
\* "metadata".
C31_OneFullPreload ==
  /\ Cardinality({v \in Videos : preload[v] = "auto"}) <= 1
  /\ activeVideo # NULL =>
       /\ preload[activeVideo] = "auto"
       /\ \A v \in videos \ {activeVideo} : preload[v] = "metadata"

\* A resize has switched from the playing landscape element to the portrait
\* element
C31_Witness ==
  /\ last = "resize" /\ activeVideo = "portrait"
  /\ \E i, j \in 1..Len(calls) :
       /\ i < j
       /\ calls[i] = [op |-> "pause", on |-> "landscape"]
       /\ calls[j] = [op |-> "load", on |-> "portrait"]
  /\ preload["portrait"] = "auto" /\ preload["landscape"] = "metadata"

----------------------------------------------------------------------------
\* Uniforms

\* The values the last action has passed for u_displayVideoSize
DisplayWritten ==
  {calls[i].value :
     i \in {j \in 1..Len(calls) : /\ calls[j].op = "uniform2fv"
                                  /\ calls[j].uniform = "u_displayVideoSize"}}

\* videoWidth and videoHeight of the active element
ReportedSize ==
  IF mediaKind = "good" /\ loadStage[activeVideo] >= 1
  THEN videoSize[activeVideo] ELSE <<0, 0>>

\* The size v, a dimension of 0 replaced by 1
AssumedSize(v) ==
  <<IF v[1] = 0 THEN 1 ELSE v[1], IF v[2] = 0 THEN 1 ELSE v[2]>>

\* The values the step passes for u_displayVideoSize
DisplayWrittenNext ==
  {calls'[i].value :
     i \in {j \in 1..Len(calls') : /\ calls'[j].op = "uniform2fv"
                                   /\ calls'[j].uniform = "u_displayVideoSize"}}

\* videoWidth and videoHeight as the step reads them when it sets the
\* uniforms: the resize handler sets them before it selects, on the element
\* that is active when the event arrives; every other step leaves the
\* active element and its size as they are
ReportedAtWrite ==
  IF last' = "resize" THEN ReportedSize ELSE ReportedSize'

\* x and y are the same number
Same(x, y) == ~Below(x, y) /\ ~Below(y, x)

\* d is the size v times the containment scale of v in the canvas c reduced
\* by 5% per side: d has the aspect ratio of v, exceeds 9/10 of c in neither
\* dimension and equals it in at least one
Contained(d, v, c) ==
  /\ Same(Product(d[1], v[2]), Product(d[2], v[1]))
  /\ v[1] = 0 => d[1] = Zero
  /\ v[2] = 0 => d[2] = Zero
  /\ \A i \in 1..2 : ~Below(Product(Exact(c[i]), 9), Product(d[i], 10))
  /\ \E i \in 1..2 : Same(Product(d[i], 10), Product(Exact(c[i]), 9))

\* x differs from n / k by at most 2^-50 of n / k
Rounded(x, n, k) ==
  LET kx == Product(x, k)
      off == IF Below(kx, n) THEN Difference(n, kx) ELSE Difference(kx, n)
  IN ~Below([mant |-> n.mant, exp |-> n.exp - 50], off)

\* d is, up to the rounding of updateUniforms, the size v times the
\* containment scale of v in the canvas c reduced by 5% per side, which is
\* 9 c[j] / (10 v[j]) for the dimension j with the smaller c[j] / v[j]
ContainedRounded(d, v, c) ==
  LET j == IF c[1] * v[2] <= c[2] * v[1] THEN 1 ELSE 2
  IN \A i \in 1..2 :
       Rounded(d[i], Product(Exact(9 * c[j]), v[i]), 10 * v[j])

\* ContainedRounded of displayVideoSize, for every canvas size and clip size
\* of the runs
RoundedSizes ==
  [cw \in SurfaceDims |-> [ch \in SurfaceDims |->
     [vw \in VideoDims |-> [vh \in VideoDims |->
        ContainedRounded(DisplayVideoSizes[cw][ch][vw][vh],
                         <<vw, vh>>, <<cw, ch>>)]]]]

\* ContainedRounded(d, v, c), looked up where d is the size that
\* displayVideoSize gives for v and c
IsContainedRounded(d, v, c) ==
  IF InRuns(c, v) /\ d = DisplayVideoSizes[c[1]][c[2]][v[1]][v[2]]
  THEN RoundedSizes[c[1]][c[2]][v[1]][v[2]]
  ELSE ContainedRounded(d, v, c)

\* C32 as stated: for every canvas size and every size the active element
\* reports, the display size written to the uniforms is the reported size
\* times its containment scale in the padded canvas: it has the aspect
\* ratio of the video, never exceeds the padded canvas and fills it exactly
\* in at least one dimension.
C32_TileContainsVideo ==
  [][\A d \in DisplayWrittenNext :
       Contained(d, ReportedAtWrite, canvasSize')]_vars

\* C32: for every canvas size and video size, each dimension of the display
\* size written to the uniforms is, within 2^-50 of it, that dimension of
\* the video size times the containment scale of the video in the canvas
\* reduced by 5% per side, where a reported width or height of 0 counts
\* as 1.  That product has the aspect ratio of the video, never exceeds the
\* padded canvas and fills it exactly in one dimension; the written size
\* does so up to the rounding of the doubles it is computed with.
C32_TileContainsVideoRounded ==
  [][\A d \in DisplayWrittenNext :
       IsContainedRounded(d, AssumedSize(ReportedAtWrite), canvasSize')]_vars

\* A frame has been drawn on a screen of pixel ratio 3/2, where the canvas
\* of 2 x 3 differs from its client size, from a clip of 3 x 2: the tile
\* fills the padded width of 9/5 up to rounding only, being written as
\* 8106479329266892 * 2^-52, and leaves a part of the padded height free
C32_Witness ==
  /\ last = "frame" /\ Issued("drawArrays")
  /\ DimsKnown(Cur, activeVideo)
  /\ ReportedSize = <<3, 2>>
  /\ devicePixelRatio = Frac(3, 2) /\ canvasSize = <<2, 3>>
  /\ canvasSize # <<clientWidth, clientHeight>>
  /\ \E d \in DisplayWritten :
       /\ d[1] = [mant |-> <<19660, 6553, 13107, 230>>, exp |-> -52]
       /\ ContainedRounded(d, ReportedSize, canvasSize)
       /\ ~Contained(d, ReportedSize, canvasSize)
       /\ Below(Product(d[2], 10), Exact(9 * canvasSize[2] - 1))

----------------------------------------------------------------------------
\* The frame loop and the context

\* C33: once dispose() has been called no action issues a draw call or a
\* texture upload, whichever frame callback, load event, promise or timer
\* completes afterwards.
C33_NoDrawAfterDispose ==
  disposed => ~Issued("drawArrays") /\ ~Issued("texImage2D")

\* A frame callback has run after dispose() on a controller that still holds
\* its context and its active element
C33_Witness ==
  /\ disposed /\ last = "frame"
  /\ gl /\ activeVideo # NULL /\ DimsKnown(Cur, activeVideo)
  /\ Issued("requestAnimationFrame")

\* C34: in every state in which the controller holds no context no frame
\* callback is pending and neither texture, buffer nor program is held, and
\* a controller without a context never holds one again.
C34_FallbackIsAbsorbing ==
  /\ [](~gl => /\ rafPending = {} /\ animationHandle = NoHandle
               /\ ~texture /\ ~positionBuffer /\ ~program)
  /\ [][~gl => ~gl']_vars

\* initGL has failed after it had compiled the shaders, and the controller
\* has handled a later resize or orientation change without a context
C34_Witness ==
  /\ FallbackMode /\ shaders > 0 /\ ~disposed
  /\ last \in {"resize", "orientation"}
  /\ Issued("play")

\* C35: at most one animation-frame callback is pending at any time, and
\* animationHandle is the handle of the pending callback, or null when none
\* is pending.
C35_OnePendingFrame ==
  /\ Cardinality(rafPending) <= 1
  /\ rafPending = IF animationHandle = NoHandle THEN {} ELSE {animationHandle}

\* Frames have been drawn, a resize has switched the element in between, and
\* the frame that has just been drawn has requested the next one
C35_Witness ==
  /\ last = "frame" /\ Issued("drawArrays") /\ ~disposed
  /\ activeVideo = "portrait" /\ loadStage["landscape"] > 0
  /\ rafPending = {animationHandle}

\* C36: the mark for upload is cleared only by a step that draws a frame
\* and uploads the texture in it, and a frame drawn while the texture is
\* marked and the active element reports its size uploads and clears the
\* mark; every other step leaves a mark that is set.
C36_MarkKeptUntilUpload ==
  [][/\ (needsTextureUpload /\ ~needsTextureUpload') =>
          (DrawnFrameStep /\ IssuedNext("texImage2D", "gl"))
     /\ (DrawnFrameStep /\ needsTextureUpload /\ DimsKnown(Cur, activeVideo)) =>
          (IssuedNext("texImage2D", "gl") /\ ~needsTextureUpload')]_vars

\* A frame has been drawn from an element that reports no size yet: it has
\* uploaded nothing and the mark is still set
C36_Witness ==
  /\ last = "frame" /\ Issued("drawArrays") /\ ~Issued("texImage2D")
  /\ needsTextureUpload /\ ~DimsKnown(Cur, activeVideo)
  /\ mediaKind = "good"

\* The texture uploads of the last action
Uploads == {i \in 1..Len(calls) : calls[i].op = "texImage2D"}

\* C37: every texture upload is filled from the element that is active and
\* that reports a width and a height above 0 at the call, also after the
\* readiness of an element selected earlier has been resolved late.
C37_UploadFromSizedActive ==
  \A i \in Uploads :
    /\ calls[i].source = activeVideo
    /\ calls[i].width > 0 /\ calls[i].height > 0

\* The landscape element was selected first and the portrait element after
\* it; the readiness of the landscape element was resolved after the switch
\* and its selection went on to play it; the frame uploads from the portrait
\* element
C37_Witness ==
  /\ last = "frame" /\ Uploads # {}
  /\ videos = Videos /\ activeVideo = "portrait"
  /\ ~hasUserInteracted /\ ~paused["landscape"]

----------------------------------------------------------------------------
\* The page

\* C38: whenever the hover-close state of the background is set the bottom
\* bar is expanded, and a step that collapses the bar is a click or a touch
\* on the background and leaves the hover-close state cleared.
C38_HoverCloseOnlyWhileExpanded ==
  /\ [](page.isGlBackgroundHovered => page.isBottomBarExpanded)
  /\ [][(page.isBottomBarExpanded /\ ~page'.isBottomBarExpanded) =>
          /\ last' \in {"click", "touchend"}
          /\ ~page'.isGlBackgroundHovered]_vars

\* On a desktop device the bar has been expanded, the mouse has left the
\* bar and has entered the background: the hover-close state is set
C38_Witness ==
  /\ last = "mouseenter"
  /\ page.isGlBackgroundHovered /\ page.isBottomBarExpanded
  /\ ~page.isMobile /\ ~page.recentHover /\ ~page.isHovered

====
